---- MODULE Spec2Model ----
(***************************************************************************)
(* A model of pytortilla: the Tortilla container writer (create), the      *)
(* local and remote readers (load) and the compiler (compile, local and    *)
(* online).  Files are byte sequences; a byte is a number in 0..255.       *)
(***************************************************************************)
EXTENDS Integers, Sequences, FiniteSets, TLC

VARIABLES
    fs,        \* the filesystem: a function from the existing paths to their bytes
    pc,        \* position of the main thread
    call,      \* arguments and locals of the running operation
    tasks,     \* the futures submitted to the thread pool, in submission order
    result,    \* what the last operation gave its caller
    table,     \* the table the reader returned last
    net,       \* the HTTP exchange of the running online compile
    samples,   \* the Samples object given to create
    subset,    \* the rows of the table given to compile
    hist       \* history of the invocations, kept for the properties only

vars == <<fs, pc, call, tasks, result, table, net, samples, subset, hist>>

----------------------------------------------------------------------------
(* Bounds of the model *)

MaxItems == 2
MaxLen == 2
MaxChunkIter == 2
MaxInvocations == 2
MaxFileItems == 3
MaxData == 3

(* Program constants *)

HeaderSize == 200
PrefixSize == 50
FormatWidth == 24

----------------------------------------------------------------------------
(* Small helpers *)

Min(a, b) == IF a < b THEN a ELSE b
Max(a, b) == IF a > b THEN a ELSE b
Zeros(n) == [i \in 1..n |-> 0]

RECURSIVE SumLen(_)
SumLen(rows) == IF rows = <<>> THEN 0 ELSE rows[1].length + SumLen(Tail(rows))

RECURSIVE ShiftRight(_, _)
ShiftRight(n, k) == IF k = 0 THEN n ELSE ShiftRight(n \div 256, k - 1)

RECURSIVE Flatten(_)
Flatten(ss) == IF ss = <<>> THEN <<>> ELSE ss[1] \o Flatten(Tail(ss))

\* Python slice s[a:b] of a bytes object: the bounds are clamped to the size.
PySlice(s, a, b) == SubSeq(s, Min(a, Len(s)) + 1, Min(b, Len(s)))

\* mmap slice assignment mm[a:b] = v: the slice is clamped to the map's size and
\* the value must have exactly the slice's length, otherwise IndexError.
MmapFits(mm, a, b, v) ==
    Len(v) = Max(0, Min(b, Len(mm)) - Min(a, Len(mm)))

MmapAssign(mm, a, b, v) ==
    [i \in 1..Len(mm) |-> IF i > a /\ i <= a + Len(v) THEN v[i - a] ELSE mm[i]]

\* n.to_bytes(8, "little") and int.from_bytes(b, "little")
ToBytesLE(n) == [i \in 1..8 |-> ShiftRight(n, i - 1) % 256]

RECURSIVE FromBytesLE(_)
FromBytesLE(b) == IF b = <<>> THEN 0 ELSE b[1] + 256 * FromBytesLE(Tail(b))

\* bytes.ljust(24): right-pads with 0x20 up to the width, never truncates.
Ljust(b, w) == b \o [i \in 1..Max(0, w - Len(b)) |-> 32]

\* bytes.strip(): removes leading and trailing ASCII whitespace.
Whitespace == {9, 10, 11, 12, 13, 32}

RECURSIVE RStrip(_)
RStrip(b) ==
    IF b # <<>> /\ b[Len(b)] \in Whitespace THEN RStrip(SubSeq(b, 1, Len(b) - 1)) ELSE b

RECURSIVE LStrip(_)
LStrip(b) == IF b # <<>> /\ b[1] \in Whitespace THEN LStrip(Tail(b)) ELSE b

Strip(b) == LStrip(RStrip(b))

\* str(idx).zfill(4) as a sequence of digit characters
Digit(d) == <<"0", "1", "2", "3", "4", "5", "6", "7", "8", "9">>[d + 1]

RECURSIVE Str(_)
Str(n) == IF n < 10 THEN <<Digit(n)>> ELSE Str(n \div 10) \o <<Digit(n % 10)>>

ZFill(s, w) == [i \in 1..Max(0, w - Len(s)) |-> "0"] \o s

----------------------------------------------------------------------------
(* The header and the footer *)

MB == <<35, 121>>     \* b"#y"

\* The 200 header bytes as create_a_tortilla and compile write them.
HeaderBytes(footerOffset, footerLength, fileFormat, npartitions) ==
    MB \o ToBytesLE(footerOffset) \o ToBytesLE(footerLength)
       \o Ljust(fileFormat, FormatWidth) \o ToBytesLE(npartitions) \o Zeros(150)

\* The footer: pyarrow's Parquet writer and reader, as a row count followed by
\* the columns of every row (the offset takes two bytes).
EncodeRow(r) == <<r.id, r.offset % 256, (r.offset \div 256) % 256, r.length, r.extra>>

EncodeFooter(rows) == <<Len(rows)>> \o Flatten([i \in 1..Len(rows) |-> EncodeRow(rows[i])])

FooterWellFormed(b) == Len(b) >= 1 /\ Len(b) = 1 + 5 * b[1]

DecodeFooter(b) ==
    [i \in 1..b[1] |->
        [id |-> b[5 * i - 3], offset |-> b[5 * i - 2] + 256 * b[5 * i - 1],
         length |-> b[5 * i], extra |-> b[5 * i + 1]]]

----------------------------------------------------------------------------
(* Paths and strings are sequences of tokens (characters or fixed pieces) *)

OutputPath == <<"out", ".tortilla">>
SourcePath(k) == <<"item", Digit(k), ".tif">>

\* pathlib's output.with_suffix(f".{str(idx).zfill(4)}.part.tortilla")
WithPartSuffix(output, idx) ==
    SubSeq(output, 1, Len(output) - 1) \o <<".">> \o ZFill(Str(idx), 4) \o <<".part.tortilla">>

\* f"/vsisubfile/{offset}_{length},{file}"
SubfileString(offset, length, file) ==
    <<"/vsisubfile/">> \o Str(offset) \o <<"_">> \o Str(length) \o <<",">> \o file

\* s.split(",")[-1]: what follows the last comma
RECURSIVE AfterLastComma(_)
AfterLastComma(s) ==
    IF \E i \in 1..Len(s) : s[i] = ","
    THEN AfterLastComma(Tail(s))
    ELSE s

----------------------------------------------------------------------------
(* The writer: create and create_a_tortilla *)

GTiff == <<71, 84, 105, 102, 102>>
COG == <<67, 79, 71>>
FileFormats == {GTiff, COG}

\* The content of sample k's source file: bytes no other file holds.
SourceBytes(k, n) == [j \in 1..n |-> 16 * k + j]

NoResult == [kind |-> "none", value |-> <<>>]
NoTable == [kind |-> "none", rows |-> <<>>, error |-> ""]
NoCall == [op |-> "none"]
NoNet == [state |-> "closed", object |-> <<>>, requests |-> 0, body |-> <<>>]
NoHist == [workerError |-> FALSE, invocations |-> 0, last |-> "none", entrySize |-> -1,
           entryBytes |-> <<>>, wroteHeader |-> FALSE, headerWrites |-> 0, streamed |-> 0,
           resumed |-> FALSE]

\* Sample.export_metadata for every sample: the length is the file's size.
\* {**metadata, **extra_metadata}: an extra field of the sample whose name is
\* the name of a column replaces the column.
Merged(sample, column, value) ==
    IF "fields" \in DOMAIN sample /\ column \in DOMAIN sample.fields
    THEN sample.fields[column] ELSE value

ExportMetadata(ss, files) ==
    [i \in 1..Len(ss) |->
        [path |-> ss[i].path, id |-> Merged(ss[i], "tortilla:id", ss[i].id), offset |-> 0,
         length |-> Len(files[ss[i].path]), extra |-> ss[i].extra]]

\* group_dataframe_by_size: the loop over the rows, then the last group.
RECURSIVE GroupLoop(_, _, _, _, _)
GroupLoop(rows, i, chunkSize, groups, current) ==
    IF i > Len(rows)
    THEN IF current # <<>> THEN Append(groups, current) ELSE groups
    ELSE IF SumLen(current) + rows[i].length <= chunkSize
         THEN GroupLoop(rows, i + 1, chunkSize, groups, Append(current, rows[i]))
         ELSE GroupLoop(rows, i + 1, chunkSize, Append(groups, current), <<rows[i]>>)

OneGroup(metadata, chunkSize) == <<metadata>>

GroupDataframeBySize(metadata, chunkSize) == GroupLoop(metadata, 1, chunkSize, <<>>, <<>>)

ShiftCumsumUnshifted(rows, i) == SumLen(SubSeq(rows, 1, i)) + HeaderSize

\* length.shift(1, fill_value=0).cumsum() + 200
ShiftCumsum(rows, i) == SumLen(SubSeq(rows, 1, i - 1)) + HeaderSize

SameOffsets(rows) == rows

\* metadata["tortilla:offset"] = shift(1).cumsum() + 200
AssignOffsets(rows) == [i \in 1..Len(rows) |-> [rows[i] EXCEPT !.offset = ShiftCumsum(rows, i)]]

\* metadata.drop(columns=["internal:path"])
DropInternalPath(rows) ==
    [i \in 1..Len(rows) |->
        [id |-> rows[i].id, offset |-> rows[i].offset,
         length |-> rows[i].length, extra |-> rows[i].extra]]

InitCreate ==
    /\ \E n \in 1..MaxItems :
        \E lens \in [1..n -> 0..MaxLen] :
            /\ fs = [p \in {SourcePath(k) : k \in 1..n} |->
                        LET item == CHOOSE k \in 1..n : SourcePath(k) = p
                        IN SourceBytes(item, lens[item])]
            /\ samples = [k \in 1..n |-> [id |-> 64 + k, path |-> SourcePath(k), extra |-> 7 * k]]
    /\ pc = "idle"
    /\ call = NoCall
    /\ tasks = <<>>
    /\ result = NoResult
    /\ table = NoTable
    /\ net = NoNet
    /\ subset = <<>>
    /\ hist = NoHist

\* create: the metadata, the groups, then one create_a_tortilla per group.
Create(nworkers, chunkSize, chunkIter, fileFormat) ==
    /\ pc = "idle"
    /\ call.op = "none"
    /\ call' = [op |-> "create", output |-> OutputPath, nworkers |-> nworkers,
                chunkIter |-> chunkIter, chunkSize |-> chunkSize, fileFormat |-> fileFormat,
                groups |-> GroupDataframeBySize(ExportMetadata(samples, fs), chunkSize),
                part |-> 1, paths |-> <<>>, cur |-> <<>>, footer |-> <<>>, bytesCounter |-> 0]
    /\ pc' = "part"
    /\ UNCHANGED <<fs, tasks, result, table, net, samples, subset, hist>>

PartOutput(c) ==
    IF Len(c.groups) = 1 THEN c.output ELSE WithPartSuffix(c.output, c.part - 1)

SinglePartition(c) == 1

PartPartitions(c) == IF Len(c.groups) = 1 THEN 1 ELSE Len(c.groups)

\* create_a_tortilla up to the submission of the futures: the offsets, the
\* footer, the truncated file, the header.
CreatePartBegin ==
    /\ pc = "part"
    /\ call.op = "create"
    /\ IF Len(call.groups) = 0
       THEN /\ pc' = "done"
            /\ result' = [kind |-> "returned", value |-> <<>>]
            /\ UNCHANGED <<fs, tasks, call>>
       ELSE IF call.groups[call.part] = <<>>
       THEN \* metadata.iloc[-1] of an empty group raises IndexError
            /\ pc' = "done"
            /\ result' = [kind |-> "raised", value |-> <<"IndexError">>]
            /\ UNCHANGED <<fs, tasks, call>>
       ELSE LET metadata == AssignOffsets(call.groups[call.part])
                last == metadata[Len(metadata)]
                bytesCounter == last.length + last.offset
                FOOTER == EncodeFooter(DropInternalPath(metadata))
                totalSize == Len(FOOTER) + bytesCounter
                output == PartOutput(call)
                header == HeaderBytes(bytesCounter, Len(FOOTER), call.fileFormat,
                                      PartPartitions(call))
            IN /\ fs' = (output :> MmapAssign(Zeros(totalSize), 0, HeaderSize, header)) @@ fs
               /\ tasks' = [i \in 1..Len(metadata) |->
                              [file |-> metadata[i].path, offset |-> metadata[i].offset,
                               length |-> metadata[i].length, newOffset |-> metadata[i].offset,
                               status |-> "queued", pos |-> 0]]
               /\ call' = [call EXCEPT !.cur = output, !.footer = FOOTER,
                                       !.bytesCounter = bytesCounter]
               /\ pc' = "copy"
               /\ UNCHANGED result
    /\ UNCHANGED <<table, net, samples, subset, hist>>

Running == {i \in 1..Len(tasks) : tasks[i].status = "running"}
Finished == {i \in 1..Len(tasks) : tasks[i].status \in {"done", "failed"}}

\* A pool thread takes the next future of the queue and opens its source file.
TaskStart(i) ==
    /\ pc = "copy"
    /\ tasks[i].status = "queued"
    /\ \A j \in 1..(i - 1) : tasks[j].status # "queued"
    /\ Cardinality(Running) < call.nworkers
    /\ tasks' = [tasks EXCEPT ![i].status =
                    IF tasks[i].file \in DOMAIN fs THEN "running" ELSE "failed"]
    /\ UNCHANGED <<fs, pc, call, result, table, net, samples, subset, hist>>

\* One turn of the loop of create_a_tortilla.write_file.
CreateWriteStep(i) ==
    /\ pc = "copy"
    /\ call.op = "create"
    /\ tasks[i].status = "running"
    /\ LET t == tasks[i]
           chunk == PySlice(fs[t.file], t.pos, t.pos + call.chunkIter)
           mm == fs[call.cur]
       IN IF chunk = <<>>
          THEN /\ tasks' = [tasks EXCEPT ![i].status = "done"]
               /\ UNCHANGED fs
          ELSE IF ~MmapFits(mm, t.offset, t.offset + t.length, chunk)
          THEN \* IndexError: mmap slice assignment is wrong size
               /\ tasks' = [tasks EXCEPT ![i].status = "failed"]
               /\ UNCHANGED fs
          ELSE /\ fs' = [fs EXCEPT ![call.cur] = MmapAssign(mm, t.offset, t.offset + t.length, chunk)]
               /\ tasks' = [tasks EXCEPT ![i].pos = t.pos + Len(chunk)]
    /\ UNCHANGED <<pc, call, result, table, net, samples, subset, hist>>

\* create_a_tortilla after the pool has shut down: the footer, the return.
CreatePartEnd ==
    /\ pc = "copy"
    /\ call.op = "create"
    /\ Finished = 1..Len(tasks)
    /\ hist' = [hist EXCEPT !.workerError = @ \/ \E i \in 1..Len(tasks) : tasks[i].status = "failed"]
    /\ fs' = [fs EXCEPT ![call.cur] =
                MmapAssign(@, call.bytesCounter,
                           call.bytesCounter + Len(call.footer), call.footer)]
    /\ LET paths == Append(call.paths, call.cur)
       IN IF call.part < Len(call.groups)
          THEN /\ call' = [call EXCEPT !.paths = paths, !.part = @ + 1]
               /\ pc' = "part"
               /\ UNCHANGED result
          ELSE /\ call' = [call EXCEPT !.paths = paths]
               /\ pc' = "done"
               /\ result' = [kind |-> "returned",
                             value |-> IF Len(call.groups) = 1 THEN call.cur ELSE paths]
    /\ UNCHANGED <<tasks, table, net, samples, subset>>

----------------------------------------------------------------------------
(* The local reader: load_local.file2metadata and files2metadata *)

RaisedTable(error) == [kind |-> "raised", rows |-> <<>>, error |-> error]

AnyMagic(static) == FALSE

\* MB = static_bytes[:2]; if MB != b"#y": raise ValueError(...)
BadMagic(static) == PySlice(static, 0, 2) # MB

\* The synthetic columns added to the rows of a decoded footer.
WithInternalColumns(rows, fileFormat, mode, source) ==
    [i \in 1..Len(rows) |->
        [id |-> rows[i].id, offset |-> rows[i].offset, length |-> rows[i].length,
         extra |-> rows[i].extra, fileFormat |-> fileFormat, mode |-> mode,
         subfile |-> SubfileString(rows[i].offset, rows[i].length, source)]]

DecodeFormatUnstripped(static) == PySlice(static, 18, 42)

\* static_bytes[18:42].strip().decode()
DecodeFormat(static) == Strip(PySlice(static, 18, 42))

LocalFile2Metadata(file, files) ==
    IF file \notin DOMAIN files THEN RaisedTable("FileNotFoundError")
    ELSE LET static == PySlice(files[file], 0, PrefixSize)
             footerOffset == FromBytesLE(PySlice(static, 2, 10))
             footerLength == FromBytesLE(PySlice(static, 10, 18))
             blob == PySlice(files[file], footerOffset, footerOffset + footerLength)
         IN IF BadMagic(static) THEN RaisedTable("ValueError")
            ELSE IF ~FooterWellFormed(blob) THEN RaisedTable("ArrowInvalid")
            ELSE [kind |-> "ok", error |-> "",
                  rows |-> WithInternalColumns(DecodeFooter(blob), DecodeFormat(static),
                                               "local", file)]

\* files2metadata: every file in turn, then pd.concat
RECURSIVE LocalFiles2Metadata(_, _)
LocalFiles2Metadata(paths, files) ==
    IF paths = <<>> THEN [kind |-> "ok", error |-> "", rows |-> <<>>]
    ELSE LET first == LocalFile2Metadata(paths[1], files)
             rest == LocalFiles2Metadata(Tail(paths), files)
         IN IF first.kind # "ok" THEN first
            ELSE IF rest.kind # "ok" THEN rest
            ELSE [kind |-> "ok", error |-> "", rows |-> first.rows \o rest.rows]

\* load of what create returned: a path, or the list of the parts
LoadCreated ==
    /\ pc = "done"
    /\ call.op = "create"
    /\ result.kind = "returned"
    /\ table' = IF Len(call.groups) = 1
                THEN LocalFile2Metadata(result.value, fs)
                ELSE LocalFiles2Metadata(result.value, fs)
    /\ pc' = "loaded"
    /\ UNCHANGED <<fs, call, tasks, result, net, samples, subset, hist>>

Workers == {1, 2}
ChunkSizes == {1, MaxLen, MaxItems * MaxLen}

NextCreate ==
    \/ \E nworkers \in Workers, chunkSize \in ChunkSizes, chunkIter \in 0..MaxChunkIter,
          fileFormat \in FileFormats :
            Create(nworkers, chunkSize, chunkIter, fileFormat)
    \/ CreatePartBegin
    \/ \E i \in 1..Len(tasks) : TaskStart(i)
    \/ \E i \in 1..Len(tasks) : CreateWriteStep(i)
    \/ CreatePartEnd
    \/ LoadCreated

SpecCreate == InitCreate /\ [][NextCreate]_vars

----------------------------------------------------------------------------
(* The compiler: compile and compile_local *)

DataPath == <<"data", ".tortilla">>

\* Item k of a source Tortilla, and the file create writes for a run of items.
ItemRow(k, len) == [path |-> SourcePath(k), id |-> 64 + k, offset |-> 0, length |-> len, extra |-> 7 * k]

WrittenTortilla(ks, lens, fileFormat, npartitions) ==
    LET metadata == AssignOffsets([i \in 1..Len(ks) |-> ItemRow(ks[i], lens[ks[i]])])
        FOOTER == EncodeFooter(DropInternalPath(metadata))
    IN HeaderBytes(HeaderSize + SumLen(metadata), Len(FOOTER), fileFormat, npartitions)
       \o Flatten([i \in 1..Len(ks) |-> SourceBytes(ks[i], lens[ks[i]])])
       \o FOOTER

Range(a, b) == [i \in 1..(b - a + 1) |-> a + i - 1]

\* The item lengths of a source Tortilla of n items holding at most MaxData bytes.
SourceLengths(n) ==
    {lens \in [1..n -> 0..MaxLen] :
        SumLen([i \in 1..n |-> [length |-> lens[i]]]) <= MaxData}

InitCompile ==
    /\ \E n \in 1..MaxFileItems :
        \E lens \in SourceLengths(n) :
            \E parts \in (IF n >= 2 THEN {1, 2} ELSE {1}) :
                fs = IF parts = 1
                     THEN (DataPath :> WrittenTortilla(Range(1, n), lens, GTiff, 1))
                     ELSE (WithPartSuffix(DataPath, 0) :> WrittenTortilla(Range(1, 1), lens, GTiff, 2))
                          @@ (WithPartSuffix(DataPath, 1) :> WrittenTortilla(Range(2, n), lens, GTiff, 2))
    /\ pc = "idle"
    /\ call = NoCall
    /\ tasks = <<>>
    /\ result = NoResult
    /\ table = NoTable
    /\ net = NoNet
    /\ samples = <<>>
    /\ subset = <<>>
    /\ hist = NoHist

\* load of a local path, or of the list of the parts of a partitioned file
LoadLocal ==
    /\ pc = "idle"
    /\ table.kind = "none"
    /\ table' = IF DataPath \in DOMAIN fs
                THEN LocalFile2Metadata(DataPath, fs)
                ELSE LocalFiles2Metadata(<<WithPartSuffix(DataPath, 0), WithPartSuffix(DataPath, 1)>>, fs)
    /\ pc' = "loaded"
    /\ UNCHANGED <<fs, call, tasks, result, net, samples, subset, hist>>

\* The user's selection: some rows of the table, in table order or reversed.
Ascending(S) == CHOOSE q \in [1..Cardinality(S) -> S] :
                    \A i \in 1..(Cardinality(S) - 1) : q[i] < q[i + 1]
Reversed(q) == [i \in 1..Len(q) |-> q[Len(q) + 1 - i]]

Select(S, reversed) ==
    /\ pc = "loaded"
    /\ table.kind = "ok"
    /\ LET idx == IF reversed THEN Reversed(Ascending(S)) ELSE Ascending(S)
       IN subset' = [i \in 1..Len(idx) |-> table.rows[idx[i]]]
    /\ pc' = "selected"
    /\ UNCHANGED <<fs, call, tasks, result, table, net, samples, hist>>

\* A source file disappears between the read and the compile.
RemoveSource(p) ==
    /\ pc = "selected"
    /\ p \in DOMAIN fs
    /\ fs' = [q \in DOMAIN fs \ {p} |-> fs[q]]
    /\ UNCHANGED <<pc, call, tasks, result, table, net, samples, subset, hist>>

Unsorted(rows) == {rows}

\* metadata.sort_values("tortilla:offset"): the rows in ascending offset order;
\* the sort is not stable, so rows of equal offset come in any order.
SortValues(rows) ==
    {[i \in 1..Len(rows) |-> rows[q[i]]] :
        q \in {q \in [1..Len(rows) -> 1..Len(rows)] :
                /\ \A i, j \in 1..Len(rows) : i # j => q[i] # q[j]
                /\ \A i \in 1..(Len(rows) - 1) : rows[q[i]].offset <= rows[q[i + 1]].offset}}

NeverUnlink(exists, overwrite) == FALSE

\* if output.exists() and overwrite: output.unlink()
Unlinks(exists, overwrite) == exists /\ overwrite

\* compile up to the dispatch on internal:mode
CompileCall(chunkIter, nworkers, overwrite) ==
    /\ pc = "selected"
    /\ \E metadata \in SortValues(subset) :
        /\ call' = [op |-> "compile", output |-> OutputPath, chunkIter |-> chunkIter,
                    nworkers |-> nworkers, overwrite |-> overwrite,
                    dataFormat |-> subset[1].fileFormat, metadata |-> metadata,
                    cur |-> OutputPath, footer |-> <<>>, bytesCounter |-> 0,
                    url |-> <<>>, headers |-> <<>>]
        /\ pc' = IF metadata[1].mode = "local" THEN "compile_local"
                 ELSE IF metadata[1].mode = "online" THEN "compile_online"
                 ELSE "done"
        /\ result' = IF metadata[1].mode \in {"local", "online"} THEN result
                     ELSE [kind |-> "raised", value |-> <<"ValueError">>]
    /\ fs' = IF Unlinks(OutputPath \in DOMAIN fs, overwrite)
             THEN [q \in DOMAIN fs \ {OutputPath} |-> fs[q]]
             ELSE fs
    /\ UNCHANGED <<tasks, table, net, samples, subset, hist>>

KeepAllColumns(metadata) == metadata

\* The new footer: the internal columns and the old offset dropped, the new
\* offset renamed to tortilla:offset.
NewFooterRows(metadata) ==
    [i \in 1..Len(metadata) |->
        [id |-> metadata[i].id, offset |-> ShiftCumsum(metadata, i),
         length |-> metadata[i].length, extra |-> metadata[i].extra]]

FirstRowFile(metadata, i) == AfterLastComma(metadata[1].subfile)

\* compile_local up to the submission of the futures
CompileLocalBegin ==
    /\ pc = "compile_local"
    /\ LET metadata == call.metadata
           n == Len(metadata)
           FOOTER == EncodeFooter(NewFooterRows(metadata))
           bytesCounter == ShiftCumsum(metadata, n) + metadata[n].length
           header == HeaderBytes(bytesCounter, Len(FOOTER), call.dataFormat, 1)
       IN /\ fs' = (call.output :> MmapAssign(Zeros(bytesCounter + Len(FOOTER)), 0, HeaderSize, header)) @@ fs
          /\ tasks' = [i \in 1..n |->
                         [file |-> FirstRowFile(metadata, i), offset |-> metadata[i].offset,
                          length |-> metadata[i].length, newOffset |-> ShiftCumsum(metadata, i),
                          status |-> "queued", pos |-> metadata[i].offset]]
          /\ call' = [call EXCEPT !.footer = FOOTER, !.bytesCounter = bytesCounter]
    /\ pc' = "copy"
    /\ UNCHANGED <<result, table, net, samples, subset, hist>>

\* One turn of the loop of compile_local.write_file.
CompileWriteStep(i) ==
    /\ pc = "copy"
    /\ call.op = "compile"
    /\ tasks[i].status = "running"
    /\ LET t == tasks[i]
           wanted == IF call.chunkIter > t.length THEN t.length ELSE call.chunkIter
           left == IF call.chunkIter > t.length THEN 0 ELSE t.length - call.chunkIter
           chunk == PySlice(fs[t.file], t.pos, t.pos + wanted)
           mm == fs[call.cur]
       IN IF ~MmapFits(mm, t.newOffset, t.newOffset + Len(chunk), chunk)
          THEN /\ tasks' = [tasks EXCEPT ![i].status = "failed"]
               /\ UNCHANGED fs
          ELSE /\ fs' = [fs EXCEPT ![call.cur] =
                            MmapAssign(mm, t.newOffset, t.newOffset + Len(chunk), chunk)]
               /\ tasks' = [tasks EXCEPT ![i] =
                              [t EXCEPT !.length = left,
                                        !.pos = t.pos + Len(chunk),
                                        !.newOffset = t.newOffset + Len(chunk),
                                        !.status = IF left = 0 THEN "done" ELSE "running"]]
    /\ UNCHANGED <<pc, call, result, table, net, samples, subset, hist>>

\* compile_local after the pool has shut down, and compile's return
CompileLocalEnd ==
    /\ pc = "copy"
    /\ call.op = "compile"
    /\ Finished = 1..Len(tasks)
    /\ hist' = [hist EXCEPT !.workerError = @ \/ \E i \in 1..Len(tasks) : tasks[i].status = "failed"]
    /\ fs' = [fs EXCEPT ![call.cur] =
                MmapAssign(@, call.bytesCounter,
                           call.bytesCounter + Len(call.footer), call.footer)]
    /\ pc' = "done"
    /\ result' = [kind |-> "returned", value |-> call.output]
    /\ UNCHANGED <<call, tasks, table, net, samples, subset>>

CompileSteps(workers) ==
    \/ LoadLocal
    \/ \E S \in (SUBSET (1..Len(table.rows))) \ {{}} : \E reversed \in BOOLEAN :
            (reversed => Cardinality(S) > 1) /\ Select(S, reversed)
    \/ \E chunkIter \in 1..MaxChunkIter, nworkers \in workers :
            CompileCall(chunkIter, nworkers, TRUE)
    \/ CompileLocalBegin
    \/ \E i \in 1..Len(tasks) : TaskStart(i)
    \/ \E i \in 1..Len(tasks) : CompileWriteStep(i)
    \/ CompileLocalEnd

\* compile with one worker
NextCompile == CompileSteps({1})

\* compile with one or two workers, and source files that may disappear
NextCompilePar ==
    \/ CompileSteps(Workers)
    \/ \E p \in DOMAIN fs : RemoveSource(p)

SpecCompile == InitCompile /\ [][NextCompile]_vars

\* human2bytes gives int(value * multiplier): "0MB" and "0.0000001MB" give 0.
ChunkIters == 0..MaxChunkIter

\* compile with one worker and every chunk size human2bytes can return
NextCopy ==
    \/ LoadLocal
    \/ \E S \in (SUBSET (1..Len(table.rows))) \ {{}} : Select(S, FALSE)
    \/ \E chunkIter \in ChunkIters : CompileCall(chunkIter, 1, TRUE)
    \/ CompileLocalBegin
    \/ \E i \in 1..Len(tasks) : TaskStart(i)
    \/ \E i \in 1..Len(tasks) : CompileWriteStep(i)
    \/ CompileLocalEnd

\* The pool runs its threads and compile goes on: a step that can be taken is
\* taken.
SpecCopy ==
    /\ InitCompile
    /\ [][NextCopy]_vars
    /\ WF_vars(\E i \in 1..Len(tasks) : TaskStart(i))
    /\ WF_vars(\E i \in 1..Len(tasks) : CompileWriteStep(i))
    /\ WF_vars(CompileLocalEnd)

SpecCompilePar == InitCompile /\ [][NextCompilePar]_vars

----------------------------------------------------------------------------
(* The remote reader: load_remote.file2metadata *)

Url == <<"https://", "example.com", "/", "data.tortilla">>

\* What a server that honours a single byte range first-last (both inclusive)
\* answers for the object.
ServeRange(object, first, last) == PySlice(object, first, last + 1)

\* The body of the answer to a request of several ranges: the ranges' bytes in
\* the order of the request.
ServeRanges(object, ranges) ==
    Flatten([i \in 1..Len(ranges) |-> ServeRange(object, ranges[i].first, ranges[i].last)])

\* {"Range": f"bytes={footer_offset}-{footer_offset + footer_length - 1}"}
FooterRange(footerOffset, footerLength) ==
    [first |-> footerOffset, last |-> footerOffset + footerLength - 1]

\* {"Range": f"bytes={footer_offset}-{footer_offset + footer_length}"}
BatchFooterRange(footerOffset, footerLength) ==
    [first |-> footerOffset, last |-> footerOffset + footerLength]

RemoteFile2Metadata(url, object) ==
    LET static == ServeRange(object, 0, 50)
        footerOffset == FromBytesLE(PySlice(static, 2, 10))
        footerLength == FromBytesLE(PySlice(static, 10, 18))
        range == FooterRange(footerOffset, footerLength)
        blob == ServeRange(object, range.first, range.last)
    IN IF BadMagic(static) THEN RaisedTable("ValueError")
       ELSE IF ~FooterWellFormed(blob) THEN RaisedTable("ArrowInvalid")
       ELSE [kind |-> "ok", error |-> "",
             rows |-> WithInternalColumns(DecodeFooter(blob), DecodeFormat(static),
                                          "online", <<"/vsicurl/">> \o url)]

InitOnline ==
    /\ \E n \in 1..MaxItems :
        \E lens \in SourceLengths(n) :
            net = [state |-> "closed", requests |-> 0, body |-> <<>>,
                   object |-> WrittenTortilla(Range(1, n), lens, GTiff, 1)]
    /\ fs = <<>>
    /\ pc = "idle"
    /\ call = NoCall
    /\ tasks = <<>>
    /\ result = NoResult
    /\ table = NoTable
    /\ samples = <<>>
    /\ subset = <<>>
    /\ hist = NoHist

\* load of a URL
LoadRemote ==
    /\ pc = "idle"
    /\ table.kind = "none"
    /\ table' = RemoteFile2Metadata(Url, net.object)
    /\ pc' = "loaded"
    /\ UNCHANGED <<fs, call, tasks, result, net, samples, subset, hist>>

----------------------------------------------------------------------------
(* The online compiler: compile_online *)

Schemes == {"ftp://", "http://", "https://"}

\* [^\s,]+ : the longest run without a blank or a comma
RECURSIVE UrlBody(_)
UrlBody(s) ==
    IF s = <<>> \/ s[1] \in {",", " "} THEN <<>> ELSE <<s[1]>> \o UrlBody(Tail(s))

\* re.search(r"(ftp|https?)://[^\s,]+", s).group(0)
RECURSIVE SearchUrl(_)
SearchUrl(s) ==
    IF s = <<>> THEN <<>>
    ELSE IF s[1] \in Schemes /\ UrlBody(Tail(s)) # <<>> THEN <<s[1]>> \o UrlBody(Tail(s))
    ELSE SearchUrl(Tail(s))

\* The loop of build_simplified_range_header over the rows 2..n
MergeAll(df, i, currentStart, currentEnd, simplified) ==
    <<<<df[1].offset, df[Len(df)].offset + df[Len(df)].length>>>>

RECURSIVE MergeRanges(_, _, _, _, _)
MergeRanges(df, i, currentStart, currentEnd, simplified) ==
    IF i > Len(df) THEN Append(simplified, <<currentStart, currentEnd>>)
    ELSE LET nextStart == df[i].offset
             nextEnd == nextStart + df[i].length
         IN IF nextStart = currentEnd
            THEN MergeRanges(df, i + 1, currentStart, nextEnd, simplified)
            ELSE MergeRanges(df, i + 1, nextStart, nextEnd,
                             Append(simplified, <<currentStart, currentEnd>>))

OneRangePerRow(df) ==
    [i \in 1..Len(df) |-> [first |-> df[i].offset, last |-> df[i].offset + df[i].length - 1]]

\* The Range header: one bytes=start-(end-1) per merged range
BuildSimplifiedRangeHeader(df) ==
    LET simplified == MergeRanges(df, 2, df[1].offset, df[1].offset + df[1].length, <<>>)
    IN [i \in 1..Len(simplified) |->
          [first |-> simplified[i][1], last |-> simplified[i][2] - 1]]

\* The transport and HTTP-status errors of requests
NetworkErrors == {"ConnectionError", "HTTPError", "ChunkedEncodingError"}

NeverComplete(start, checksum) == FALSE

\* if start == checksum: return None
IsComplete(start, checksum) == start = checksum

NotCaught(e) == FALSE

\* except requests.exceptions.RequestException
IsRequestException(e) == e \in NetworkErrors

\* compile_online up to the streaming GET: the footer, the checksum, the Range
\* header, the start point, the early return, the header written in append mode.
OnlineBegin ==
    /\ pc = "compile_online"
    /\ LET metadata == call.metadata
           n == Len(metadata)
           FOOTER == EncodeFooter(NewFooterRows(metadata))
           totalBytes == ShiftCumsum(metadata, n) + metadata[n].length
           checksum == totalBytes + Len(FOOTER)
           exists == call.output \in DOMAIN fs
           old == IF exists THEN fs[call.output] ELSE <<>>
           start == IF exists THEN Len(old) ELSE 200
           header == HeaderBytes(totalBytes, Len(FOOTER), call.dataFormat, 1)
           entered == [hist EXCEPT !.invocations = @ + 1,
                                   !.entrySize = IF exists THEN Len(old) ELSE -1,
                                   !.entryBytes = old,
                                   !.streamed = 0,
                                   !.resumed = exists /\ hist.last \in NetworkErrors /\ hist.entrySize = -1
                                               /\ hist.wroteHeader /\ hist.streamed >= 1
                                               /\ hist.streamed < SumLen(subset)]
       IN IF IsComplete(start, checksum)
          THEN /\ pc' = "done"
               /\ result' = [kind |-> "returned", value |-> call.output]
               /\ hist' = [entered EXCEPT !.last = "noop", !.wroteHeader = FALSE]
               /\ UNCHANGED <<fs, call, net>>
          ELSE /\ fs' = (call.output :> (IF start = 200 THEN old \o header ELSE old)) @@ fs
               /\ call' = [call EXCEPT !.footer = FOOTER, !.bytesCounter = totalBytes,
                                       !.url = SearchUrl(metadata[1].subfile),
                                       !.headers = BuildSimplifiedRangeHeader(metadata)]
               /\ hist' = [entered EXCEPT !.last = "running", !.wroteHeader = (start = 200),
                                          !.headerWrites = (IF exists THEN @ ELSE 0)
                                                           + (IF start = 200 THEN 1 ELSE 0)]
               /\ pc' = "get"
               /\ UNCHANGED <<result, net>>
    /\ UNCHANGED <<tasks, table, samples, subset>>

\* What compile gives its caller when compile_online met the exception e.
AfterError(e) ==
    /\ pc' = "done"
    /\ result' = IF IsRequestException(e)
                 THEN [kind |-> "returned", value |-> call.output]
                 ELSE [kind |-> "raised", value |-> <<e>>]
    /\ hist' = [hist EXCEPT !.last = e]

\* requests.get or raise_for_status raises.
GetFails(e) ==
    /\ pc = "get"
    /\ call.url = Url
    /\ net' = [net EXCEPT !.requests = @ + 1]
    /\ AfterError(e)
    /\ UNCHANGED <<fs, call, tasks, table, samples, subset>>

\* The server answers the ranges; the body is read as a stream.
GetOk ==
    /\ pc = "get"
    /\ call.url = Url
    /\ net' = [net EXCEPT !.requests = @ + 1, !.state = "open",
                          !.body = ServeRanges(net.object, call.headers)]
    /\ pc' = "stream"
    /\ UNCHANGED <<fs, call, tasks, result, table, samples, subset, hist>>

\* One turn of the loop over response.iter_content(chunk_size=chunk_size_iter)
StreamChunk ==
    /\ pc = "stream"
    /\ net.body # <<>>
    /\ LET chunk == PySlice(net.body, 0, call.chunkIter)
       IN /\ fs' = [fs EXCEPT ![call.output] = @ \o chunk]
          /\ net' = [net EXCEPT !.body = SubSeq(@, Len(chunk) + 1, Len(@))]
          /\ hist' = [hist EXCEPT !.streamed = @ + Len(chunk)]
    /\ UNCHANGED <<pc, call, tasks, result, table, samples, subset>>

\* The stream breaks, or the write of a chunk raises.
StreamFails(e) ==
    /\ pc = "stream"
    /\ net' = [net EXCEPT !.state = "closed", !.body = <<>>]
    /\ AfterError(e)
    /\ UNCHANGED <<fs, call, tasks, table, samples, subset>>

\* The stream ended: the footer is written and the file closed.
StreamEnd ==
    /\ pc = "stream"
    /\ net.body = <<>>
    /\ fs' = [fs EXCEPT ![call.output] = @ \o call.footer]
    /\ net' = [net EXCEPT !.state = "closed"]
    /\ pc' = "done"
    /\ result' = [kind |-> "returned", value |-> call.output]
    /\ hist' = [hist EXCEPT !.last = "complete"]
    /\ UNCHANGED <<call, tasks, table, samples, subset>>

\* The caller invokes compile again with the same subset and output.
Reinvoke ==
    /\ pc = "done"
    /\ call.op = "compile"
    /\ hist.invocations < MaxInvocations
    /\ pc' = "selected"
    /\ UNCHANGED <<fs, call, tasks, result, table, net, samples, subset, hist>>

NextOnline ==
    \/ LoadRemote
    \/ \E S \in (SUBSET (1..Len(table.rows))) \ {{}} : Select(S, FALSE)
    \/ \E chunkIter \in 1..MaxChunkIter, overwrite \in BOOLEAN :
            CompileCall(chunkIter, 1, overwrite)
    \/ OnlineBegin
    \/ \E e \in {"ConnectionError", "HTTPError"} : GetFails(e)
    \/ GetOk
    \/ StreamChunk
    \/ \E e \in {"ChunkedEncodingError", "OSError"} : StreamFails(e)
    \/ StreamEnd
    \/ Reinvoke

SpecOnline == InitOnline /\ [][NextOnline]_vars

----------------------------------------------------------------------------
(* The online compiler on selections with gaps, without failures *)

InitStream ==
    /\ \E lens \in SourceLengths(MaxFileItems) :
            net = [NoNet EXCEPT !.object = WrittenTortilla(Range(1, MaxFileItems), lens, GTiff, 1)]
    /\ fs = <<>>
    /\ pc = "idle"
    /\ call = NoCall
    /\ tasks = <<>>
    /\ result = NoResult
    /\ table = NoTable
    /\ samples = <<>>
    /\ subset = <<>>
    /\ hist = NoHist

NextStream ==
    \/ LoadRemote
    \/ \E S \in (SUBSET (1..Len(table.rows))) \ {{}} : \E reversed \in BOOLEAN :
            (reversed => Cardinality(S) > 1) /\ Select(S, reversed)
    \/ \E chunkIter \in 1..MaxChunkIter : CompileCall(chunkIter, 1, TRUE)
    \/ OnlineBegin
    \/ GetOk
    \/ StreamChunk
    \/ StreamEnd

SpecStream == InitStream /\ [][NextStream]_vars

----------------------------------------------------------------------------
(* The online compiler with a server that chooses the status of its answer *)

\* 206 with the ranges asked for, 200 with the whole object from a server that
\* ignores the Range header, 404 with an error page.
Statuses == {206, 200, 404}

\* Chunk sizes of the order of a whole file, as the default of 100MB is.
LargeChunkIters == {HeaderSize * k : k \in 1..MaxChunkIter}

InitOnlineStatus ==
    /\ \E n \in 1..MaxItems :
        \E lens \in SourceLengths(n) :
            net = [state |-> "closed", requests |-> 0, body |-> <<>>, status |-> 0,
                   object |-> WrittenTortilla(Range(1, n), lens, GTiff, 1)]
    /\ fs = <<>>
    /\ pc = "idle"
    /\ call = NoCall
    /\ tasks = <<>>
    /\ result = NoResult
    /\ table = NoTable
    /\ samples = <<>>
    /\ subset = <<>>
    /\ hist = NoHist

\* requests.get answers with the status; response.raise_for_status() raises
\* HTTPError for 4xx and 5xx and lets every other status through.
GetAnswer(status) ==
    /\ pc = "get"
    /\ call.url = Url
    /\ IF status >= 400
       THEN /\ net' = [net EXCEPT !.requests = @ + 1, !.status = status]
            /\ AfterError("HTTPError")
            /\ UNCHANGED <<fs, call, tasks, table, samples, subset>>
       ELSE /\ net' = [net EXCEPT !.requests = @ + 1, !.state = "open", !.status = status,
                                  !.body = IF status = 206
                                           THEN ServeRanges(net.object, call.headers)
                                           ELSE net.object]
            /\ pc' = "stream"
            /\ UNCHANGED <<fs, call, tasks, result, table, samples, subset, hist>>

NextOnlineStatus ==
    \/ LoadRemote
    \/ \E S \in (SUBSET (1..Len(table.rows))) \ {{}} : Select(S, FALSE)
    \/ \E chunkIter \in LargeChunkIters, overwrite \in BOOLEAN :
            CompileCall(chunkIter, 1, overwrite)
    \/ OnlineBegin
    \/ GetFails("ConnectionError")
    \/ \E status \in Statuses : GetAnswer(status)
    \/ StreamChunk
    \/ \E e \in {"ChunkedEncodingError", "OSError"} : StreamFails(e)
    \/ StreamEnd
    \/ Reinvoke

SpecOnlineStatus == InitOnlineStatus /\ [][NextOnlineStatus]_vars

----------------------------------------------------------------------------
(* compile, local or online, on an output path that may hold a file already *)

\* What stands at the output path before the first compile: nothing, or the
\* bytes of some other file.
StaleOutputs == {<<>>, <<7, 7, 7>>}

InitRecompile ==
    /\ \E n \in 1..MaxItems, remote \in BOOLEAN, stale \in StaleOutputs :
        \E lens \in SourceLengths(n) :
            LET source == WrittenTortilla(Range(1, n), lens, GTiff, 1)
                old == IF stale = <<>> THEN <<>> ELSE (OutputPath :> stale)
            IN /\ fs = IF remote THEN old ELSE (DataPath :> source) @@ old
               /\ net = [NoNet EXCEPT !.object = IF remote THEN source ELSE <<>>]
    /\ pc = "idle"
    /\ call = NoCall
    /\ tasks = <<>>
    /\ result = NoResult
    /\ table = NoTable
    /\ samples = <<>>
    /\ subset = <<>>
    /\ hist = NoHist

\* The caller hands compile a table whose internal:mode is another string.
ForeignMode ==
    /\ pc = "selected"
    /\ call = NoCall
    /\ subset[1].mode \in {"local", "online"}
    /\ subset' = [i \in 1..Len(subset) |-> [subset[i] EXCEPT !.mode = "ftp"]]
    /\ UNCHANGED <<fs, pc, call, tasks, result, table, net, samples, hist>>

\* The caller calls compile once more, with the same table and output.
CallAgain ==
    /\ pc = "done"
    /\ call.op = "compile"
    /\ hist.invocations < MaxInvocations
    /\ hist' = [hist EXCEPT !.invocations = IF subset[1].mode = "online" THEN @ ELSE @ + 1]
    /\ pc' = "selected"
    /\ UNCHANGED <<fs, call, tasks, result, table, net, samples, subset>>

NextRecompile ==
    \/ DataPath \in DOMAIN fs /\ LoadLocal
    \/ DataPath \notin DOMAIN fs /\ LoadRemote
    \/ \E S \in (SUBSET (1..Len(table.rows))) \ {{}} : Select(S, FALSE)
    \/ ForeignMode
    \/ \E chunkIter \in 1..MaxChunkIter, overwrite \in BOOLEAN :
            CompileCall(chunkIter, 1, overwrite)
    \/ CompileLocalBegin
    \/ \E i \in 1..Len(tasks) : TaskStart(i)
    \/ \E i \in 1..Len(tasks) : CompileWriteStep(i)
    \/ CompileLocalEnd
    \/ OnlineBegin
    \/ GetFails("ConnectionError")
    \/ GetOk
    \/ StreamChunk
    \/ StreamFails("ChunkedEncodingError")
    \/ StreamEnd
    \/ CallAgain

SpecRecompile == InitRecompile /\ [][NextRecompile]_vars

----------------------------------------------------------------------------
(* Samples and create: the collection is validated, then written *)

\* The extra fields a caller gives a Sample (Config.extra = "allow").
ExtraFields == {<<>>, ("tortilla:id" :> 88)}

\* The samples a caller builds on the first n source files.
Candidates(n) ==
    {[k \in 1..n |-> [id |-> ids[k], path |-> SourcePath(k), extra |-> 7 * k,
                      fields |-> fields[k]]] :
        ids \in [1..n -> {65, 66}], fields \in [1..n -> ExtraFields]}

\* Samples.check_samples: len(ids) != len(set(ids)) raises
CheckSamples(ss) ==
    Len(ss) = Cardinality({ss[i].id : i \in 1..Len(ss)})

InitSamples ==
    /\ \E lens \in [1..MaxItems -> 0..MaxLen] :
            fs = [p \in {SourcePath(k) : k \in 1..MaxItems} |->
                    LET item == CHOOSE k \in 1..MaxItems : SourcePath(k) = p
                    IN SourceBytes(item, lens[item])]
    /\ samples = <<>>
    /\ pc = "idle"
    /\ call = NoCall
    /\ tasks = <<>>
    /\ result = NoResult
    /\ table = NoTable
    /\ net = NoNet
    /\ subset = <<>>
    /\ hist = NoHist

\* Samples(samples=[...], file_format=...)
NewSamples(ss) ==
    /\ pc = "idle"
    /\ samples = <<>>
    /\ result = NoResult
    /\ IF CheckSamples(ss)
       THEN samples' = ss /\ UNCHANGED <<pc, result>>
       ELSE /\ result' = [kind |-> "raised", value |-> <<"ValueError">>]
            /\ pc' = "rejected"
            /\ UNCHANGED samples
    /\ UNCHANGED <<fs, call, tasks, table, net, subset, hist>>

NextSamples ==
    \/ \E n \in 1..MaxItems : \E ss \in Candidates(n) : NewSamples(ss)
    \/ \E chunkSize \in ChunkSizes, chunkIter \in 1..MaxChunkIter :
            samples # <<>> /\ Create(1, chunkSize, chunkIter, GTiff)
    \/ CreatePartBegin
    \/ \E i \in 1..Len(tasks) : TaskStart(i)
    \/ \E i \in 1..Len(tasks) : CreateWriteStep(i)
    \/ CreatePartEnd

SpecSamples == InitSamples /\ [][NextSamples]_vars

----------------------------------------------------------------------------
(* build_simplified_range_header on tables of its own *)

\* ",".join([f"bytes={start}-{end-1}" for start, end in simplified_ranges])
RECURSIVE FormatRangeHeader(_)
FormatRangeHeader(ranges) ==
    IF ranges = <<>> THEN <<>>
    ELSE <<"bytes=">> \o Str(ranges[1].first) \o <<"-">>
         \o (IF ranges[1].last < 0 THEN <<"-", "1">> ELSE Str(ranges[1].last))
         \o (IF Len(ranges) = 1 THEN <<>> ELSE <<",">> \o FormatRangeHeader(Tail(ranges)))

FirstOffsets == {0, 200}
Gaps == {0, 100}
ItemLengths == (0..MaxLen) \cup {50, 100}

\* The rows of a table in ascending offset order: the first offset, then for
\* every row its length and the gap that follows it.
RowsOf(first, lens, gaps) ==
    [i \in 1..Len(lens) |->
        [id |-> i, length |-> lens[i],
         offset |-> first + SumLen([k \in 1..(i - 1) |-> [length |-> lens[k] + gaps[k]]])]]

InitRanges ==
    /\ \E n \in 1..MaxFileItems, first \in FirstOffsets :
        \E lens \in [1..n -> ItemLengths], gaps \in [1..n -> Gaps] :
            subset = RowsOf(first, lens, gaps)
    /\ fs = <<>>
    /\ net = NoNet
    /\ pc = "idle"
    /\ call = NoCall
    /\ tasks = <<>>
    /\ result = NoResult
    /\ table = NoTable
    /\ samples = <<>>
    /\ hist = NoHist

RangeHeaderCall ==
    /\ pc = "idle"
    /\ call' = [op |-> "build_simplified_range_header",
                headers |-> BuildSimplifiedRangeHeader(subset)]
    /\ result' = [kind |-> "returned", value |-> FormatRangeHeader(call'.headers)]
    /\ pc' = "done"
    /\ UNCHANGED <<fs, tasks, table, net, samples, subset, hist>>

NextRanges == RangeHeaderCall

SpecRanges == InitRanges /\ [][NextRanges]_vars

\* The footer of a file, as the header locates it
FooterOffsetOf(b) == FromBytesLE(PySlice(b, 2, 10))
FooterLengthOf(b) == FromBytesLE(PySlice(b, 10, 18))
FooterBlobOf(b) == PySlice(b, FooterOffsetOf(b), FooterOffsetOf(b) + FooterLengthOf(b))
FooterRowsOf(b) == DecodeFooter(FooterBlobOf(b))

----------------------------------------------------------------------------
(* The reader's entry points: load, snippet2files, lazy_load, read *)

TORTILLA == <<84, 79, 82, 84, 73, 76, 76, 65>>

\* A Tortilla whose items are Tortillas: what create writes for samples whose
\* files are the children, with file_format "TORTILLA".
NestedTortilla(children) ==
    LET metadata == AssignOffsets([i \in 1..Len(children) |->
                        [path |-> <<>>, id |-> 96 + i, offset |-> 0,
                         length |-> Len(children[i]), extra |-> 3 * i]])
        FOOTER == EncodeFooter(DropInternalPath(metadata))
    IN HeaderBytes(HeaderSize + SumLen(metadata), Len(FOOTER), TORTILLA, 1)
       \o Flatten(children) \o FOOTER

\* The same file from a writer that pads data_format with the byte pad.
WithPadding(b, pad) ==
    [i \in 1..Len(b) |-> IF i > 18 /\ i <= 42 /\ b[i] = 32 THEN pad ELSE b[i]]

\* The same file with other bytes in place of the magic number.
WithoutMagic(b) == <<88, 88>> \o SubSeq(b, 3, Len(b))

\* The child Tortilla that starts at byte base of the object, and its rows as
\* its own footer stores them.
ChildAt(object, base) == SubSeq(object, base + 1, Len(object))
ChildRows(object, base) == FooterRowsOf(ChildAt(object, base))

Dirs == {<<>>, <<"dir/">>}
UrlBase == <<"https://", "example.com", "/", "a", "/">>
NestName == <<"nest", ".tortilla">>
SnippetName == <<"data", "*", ".tortilla">>

\* The files of one dataset under the prefix: the single file, its two parts
\* (for two items or more) and the nested file.
Dataset(prefix, n, lens, pad) ==
    LET single == WithPadding(WrittenTortilla(Range(1, n), lens, GTiff, 1), pad)
        first == WithPadding(WrittenTortilla(Range(1, 1), lens, GTiff, 1), pad)
        whole == (prefix \o DataPath :> single)
                 @@ (prefix \o NestName :> WithPadding(NestedTortilla(<<first, single>>), pad))
    IN IF n = 1 THEN whole
       ELSE whole
            @@ (prefix \o WithPartSuffix(DataPath, 0) :>
                    WithPadding(WrittenTortilla(Range(1, 1), lens, GTiff, 2), pad))
            @@ (prefix \o WithPartSuffix(DataPath, 1) :>
                    WithPadding(WrittenTortilla(Range(2, n), lens, GTiff, 2), pad))

InitRead ==
    /\ \E n \in 1..MaxItems, pad \in {32, 0}, dir \in Dirs :
        \E lens \in SourceLengths(n) :
            /\ fs = Dataset(dir, n, lens, pad)
            /\ net = [state |-> "closed", requests |-> 0, body |-> <<>>, object |-> <<>>,
                      objects |-> Dataset(UrlBase, n, lens, pad), log |-> <<>>,
                      footers |-> <<>>]
    /\ pc = "idle"
    /\ call = NoCall
    /\ tasks = <<>>
    /\ result = NoResult
    /\ table = NoTable
    /\ samples = <<>>
    /\ subset = <<>>
    /\ hist = NoHist

\* The dataset is as it was written, locally and on the server.
Pristine ==
    /\ \A q \in DOMAIN fs : PySlice(fs[q], 0, 2) = MB
    /\ \A u \in DOMAIN net.objects : PySlice(net.objects[u], 0, 2) = MB
    /\ \A i \in 1..2 :
        LET nest == net.objects[UrlBase \o NestName]
        IN PySlice(ChildAt(nest, FooterRowsOf(nest)[i].offset), 0, 2) = MB
    /\ Cardinality(DOMAIN fs) = Cardinality(DOMAIN net.objects)

\* A file that is not a Tortilla stands where one is expected.
DamageLocal(p) ==
    /\ pc = "idle"
    /\ p \in DOMAIN fs
    /\ Pristine
    /\ fs' = [fs EXCEPT ![p] = WithoutMagic(@)]
    /\ UNCHANGED <<pc, call, tasks, result, table, net, samples, subset, hist>>

DamageRemote(u) ==
    /\ pc = "idle"
    /\ u \in DOMAIN net.objects
    /\ Pristine
    /\ net' = [net EXCEPT !.objects[u] = WithoutMagic(@)]
    /\ UNCHANGED <<fs, pc, call, tasks, result, table, samples, subset, hist>>

\* An item of the nested file on the server is not a Tortilla.
DamageChild(i) ==
    /\ pc = "idle"
    /\ Pristine
    /\ LET at == FooterRowsOf(net.objects[UrlBase \o NestName])[i].offset
       IN net' = [net EXCEPT !.objects[UrlBase \o NestName] =
                      SubSeq(@, 1, at) \o WithoutMagic(ChildAt(@, at))]
    /\ UNCHANGED <<fs, pc, call, tasks, result, table, samples, subset, hist>>

\* A part of the local dataset is missing.
RemovePart(p) ==
    /\ pc = "idle"
    /\ p \in DOMAIN fs
    /\ Pristine
    /\ \E dir \in Dirs, k \in 0..1 : p = dir \o WithPartSuffix(DataPath, k)
    /\ fs' = [q \in DOMAIN fs \ {p} |-> fs[q]]
    /\ UNCHANGED <<pc, call, tasks, result, table, net, samples, subset, hist>>

\* is_valid_url of a string: the scheme is http or https and there is a host.
IsValidUrl(file) == Len(file) >= 2 /\ file[1] \in {"http://", "https://"}

\* The content of the answer to a GET of one byte range; an object that does
\* not exist answers without content.
Content(objects, url, first, last) ==
    IF url \in DOMAIN objects THEN ServeRange(objects[url], first, last) ELSE <<>>

\* load_remote.files2metadata for one URL of the list
RemoteBatchFile2Metadata(url, objects) ==
    LET static == Content(objects, url, 0, 50)
        footerOffset == FromBytesLE(PySlice(static, 2, 10))
        footerLength == FromBytesLE(PySlice(static, 10, 18))
        range == BatchFooterRange(footerOffset, footerLength)
        blob == Content(objects, url, range.first, range.last)
    IN IF BadMagic(static) THEN RaisedTable("ValueError")
       ELSE IF ~FooterWellFormed(blob) THEN RaisedTable("ArrowInvalid")
       ELSE [kind |-> "ok", error |-> "",
             rows |-> WithInternalColumns(DecodeFooter(blob), DecodeFormat(static),
                                          "online", <<"/vsicurl/">> \o url)]

RECURSIVE RemoteFiles2Metadata(_, _)
RemoteFiles2Metadata(urls, objects) ==
    IF urls = <<>> THEN [kind |-> "ok", error |-> "", rows |-> <<>>]
    ELSE LET first == RemoteBatchFile2Metadata(urls[1], objects)
             rest == RemoteFiles2Metadata(Tail(urls), objects)
         IN IF first.kind # "ok" THEN first
            ELSE IF rest.kind # "ok" THEN rest
            ELSE [kind |-> "ok", error |-> "", rows |-> first.rows \o rest.rows]

SameOffset(rows, offset) == rows

\* metadata["tortilla:offset"] + offset
AddOffset(rows, offset) == [i \in 1..Len(rows) |-> [rows[i] EXCEPT !.offset = @ + offset]]

\* load_remote.lazyfile2metadata
RemoteLazyFile2Metadata(offset, url, objects) ==
    LET static == Content(objects, url, offset, offset + 50)
        footerOffset == FromBytesLE(PySlice(static, 2, 10)) + offset
        footerLength == FromBytesLE(PySlice(static, 10, 18))
        range == FooterRange(footerOffset, footerLength)
        blob == Content(objects, url, range.first, range.last)
    IN IF BadMagic(static) THEN RaisedTable("ValueError")
       ELSE IF ~FooterWellFormed(blob) THEN RaisedTable("ArrowInvalid")
       ELSE [kind |-> "ok", error |-> "",
             rows |-> WithInternalColumns(AddOffset(DecodeFooter(blob), offset),
                                          DecodeFormat(static), "online",
                                          <<"/vsicurl/">> \o url)]

\* (\d+): the longest run of digits, and int() of it
DigitTokens == {Digit(d) : d \in 0..9}

RECURSIVE TakeDigits(_)
TakeDigits(s) ==
    IF s # <<>> /\ s[1] \in DigitTokens THEN <<s[1]>> \o TakeDigits(Tail(s)) ELSE <<>>

RECURSIVE ParseInt(_)
ParseInt(ds) ==
    IF ds = <<>> THEN 0
    ELSE 10 * ParseInt(SubSeq(ds, 1, Len(ds) - 1))
         + (CHOOSE d \in 0..9 : Digit(d) = ds[Len(ds)])

KeepVsicurl(subfile) ==
    LET first == TakeDigits(Tail(subfile))
        afterFirst == SubSeq(subfile, 2 + Len(first), Len(subfile))
        second == TakeDigits(Tail(afterFirst))
        afterSecond == SubSeq(afterFirst, 2 + Len(second), Len(afterFirst))
    IN [offset |-> ParseInt(first), length |-> ParseInt(second), path |-> Tail(afterSecond)]

\* TortillaDataFrame.get_internal_path: /vsisubfile/(\d+)_(\d+),(.+)
GetInternalPath(subfile) ==
    LET first == TakeDigits(Tail(subfile))
        afterFirst == SubSeq(subfile, 2 + Len(first), Len(subfile))
        second == TakeDigits(Tail(afterFirst))
        afterSecond == SubSeq(afterFirst, 2 + Len(second), Len(afterFirst))
        path == Tail(afterSecond)
    IN [offset |-> ParseInt(first), length |-> ParseInt(second),
        path |-> IF path[1] = "/vsicurl/" THEN Tail(path) ELSE path]

Suffixes == {".tortilla", ".part.tortilla", ".tif"}

\* pathlib's stem, and the name with_suffix replaces the suffix of
Stem(name) ==
    IF name # <<>> /\ name[Len(name)] \in Suffixes THEN SubSeq(name, 1, Len(name) - 1) ELSE name

PartFile(stem, d) == stem \o <<".">> \o ZFill(Str(d), 4) \o <<".part.tortilla">>

\* The position of the last "/" of a URL's path, 0 if there is none
LastSlash(s) == IF \E i \in 1..Len(s) : s[i] = "/"
                THEN CHOOSE i \in 1..Len(s) : s[i] = "/" /\ \A j \in (i + 1)..Len(s) : s[j] # "/"
                ELSE 0

\* split_name_and_path: the name and the directory of a path or a URL
SplitNameAndPath(file) ==
    IF file[1] \in {"http://", "https://"}
    THEN LET path == SubSeq(file, 3, Len(file))
             cut == LastSlash(path)
             parent == IF cut <= 1 THEN <<"/">> ELSE SubSeq(path, 1, cut - 1)
         IN [name |-> SubSeq(path, cut + 1, Len(path)),
             path |-> SubSeq(file, 1, 2) \o parent]
    ELSE IF file[1] \in {d[1] : d \in Dirs \ {<<>>}}
         THEN [name |-> Tail(file), path |-> <<file[1]>>]
         ELSE [name |-> file, path |-> <<".">>]

\* re.match(r".*\*\.tortilla$", str(file))
IsSnippet(file) == Len(file) >= 2 /\ file[Len(file) - 1] = "*" /\ file[Len(file)] = ".tortilla"

\* snippet2files for a string or a path: the files, or the error, and the
\* Range requests made.
Snippet2Files(file, files, objects) ==
    IF ~IsSnippet(file)
    THEN [kind |-> "ok", list |-> FALSE, value |-> file, requests |-> <<>>]
    ELSE LET split == SplitNameAndPath(file)
             filename == SubSeq(split.name, 1, Len(split.name) - 2)
         IN IF IsValidUrl(split.path)
            THEN LET dumbfile == split.path \o <<"/">> \o PartFile(filename, 0)
                     npartitions == FromBytesLE(Content(objects, dumbfile, 42, 50))
                 IN [kind |-> "ok", list |-> TRUE,
                     value |-> [d \in 1..npartitions |->
                                   split.path \o <<"/">> \o PartFile(filename, d - 1)],
                     requests |-> <<[url |-> dumbfile, first |-> 42, last |-> 50]>>]
            ELSE LET parent == IF split.path = <<".">> THEN <<>> ELSE split.path
                     dumbfile == parent \o PartFile(Stem(filename), 0)
                     npartitions == FromBytesLE(PySlice(files[dumbfile], 42, 50))
                     parts == [d \in 1..npartitions |-> PartFile(Stem(filename), d - 1)]
                 IN IF dumbfile \notin DOMAIN files
                    THEN [kind |-> "raised", list |-> TRUE, value |-> <<"FileNotFoundError">>,
                          requests |-> <<>>]
                    ELSE IF \E d \in 1..npartitions : parts[d] \notin DOMAIN files
                    THEN [kind |-> "raised", list |-> TRUE, value |-> <<"FileNotFoundError">>,
                          requests |-> <<>>]
                    ELSE [kind |-> "ok", list |-> TRUE, value |-> parts, requests |-> <<>>]

\* The footer requests of a remote read: the request of every file whose
\* header passed the magic check, up to the first file that fails.
RECURSIVE FooterRequests(_, _, _, _)
FooterRequests(urls, base, batch, objects) ==
    IF urls = <<>> THEN <<>>
    ELSE LET static == Content(objects, urls[1], base, base + 50)
             footerOffset == FromBytesLE(PySlice(static, 2, 10)) + base
             footerLength == FromBytesLE(PySlice(static, 10, 18))
             range == IF batch THEN BatchFooterRange(footerOffset, footerLength)
                      ELSE FooterRange(footerOffset, footerLength)
         IN IF BadMagic(static) THEN <<>>
            ELSE <<[url |-> urls[1], base |-> base, first |-> range.first, last |-> range.last]>>
                 \o (IF FooterWellFormed(Content(objects, urls[1], range.first, range.last))
                     THEN FooterRequests(Tail(urls), base, batch, objects) ELSE <<>>)

\* The footer requests of load: none for local files.
LoadRequests(expanded, objects) ==
    IF expanded.kind # "ok" THEN <<>>
    ELSE IF expanded.list
    THEN IF \A i \in 1..Len(expanded.value) : IsValidUrl(expanded.value[i])
         THEN FooterRequests(expanded.value, 0, TRUE, objects) ELSE <<>>
    ELSE IF IsValidUrl(expanded.value)
         THEN FooterRequests(<<expanded.value>>, 0, FALSE, objects) ELSE <<>>

\* load after snippet2files: the dispatch on list or string, URL or path
Dispatch(expanded, files, objects) ==
    IF expanded.kind # "ok" THEN RaisedTable(expanded.value[1])
    ELSE IF expanded.list
    THEN IF expanded.value = <<>> THEN RaisedTable("ValueError")   \* pd.concat([])
         ELSE IF \A i \in 1..Len(expanded.value) : IsValidUrl(expanded.value[i])
         THEN RemoteFiles2Metadata(expanded.value, objects)
         ELSE LocalFiles2Metadata(expanded.value, files)
    ELSE IF IsValidUrl(expanded.value)
         THEN RemoteFile2Metadata(expanded.value,
                                  IF expanded.value \in DOMAIN objects
                                  THEN objects[expanded.value] ELSE <<>>)
         ELSE LocalFile2Metadata(expanded.value, files)

\* load of a string or a path
LoadFile(file) ==
    /\ pc = "idle"
    /\ LET expanded == Snippet2Files(file, fs, net.objects)
       IN /\ table' = Dispatch(expanded, fs, net.objects)
          /\ call' = [op |-> "load", file |-> file, expanded |-> expanded, offset |-> 0]
          /\ net' = [net EXCEPT !.log = expanded.requests,
                                !.footers = LoadRequests(expanded, net.objects)]
    /\ pc' = "loaded"
    /\ UNCHANGED <<fs, tasks, result, samples, subset, hist>>

\* load of a list of paths or URLs
LoadList(list) ==
    /\ pc = "idle"
    /\ LET expanded == [kind |-> "ok", list |-> TRUE, value |-> list, requests |-> <<>>]
       IN /\ table' = Dispatch(expanded, fs, net.objects)
          /\ call' = [op |-> "load_list", file |-> list, expanded |-> expanded, offset |-> 0]
          /\ net' = [net EXCEPT !.footers = LoadRequests(expanded, net.objects)]
    /\ pc' = "loaded"
    /\ UNCHANGED <<fs, tasks, result, samples, subset, hist>>

\* lazy_load of a URL
LazyLoad(offset, url) ==
    /\ pc = "idle"
    /\ IsValidUrl(url)
    /\ table' = RemoteLazyFile2Metadata(offset, url, net.objects)
    /\ call' = [op |-> "lazy_load", file |-> url,
                expanded |-> [kind |-> "ok", list |-> FALSE, value |-> url, requests |-> <<>>],
                offset |-> offset]
    /\ net' = [net EXCEPT !.footers = FooterRequests(<<url>>, offset, FALSE, net.objects)]
    /\ pc' = "loaded"
    /\ UNCHANGED <<fs, tasks, result, samples, subset, hist>>

FromStart(row, parsed) == 0

\* lazy_load(row["tortilla:offset"], path): the base read descends with
DescendOffset(row, parsed) == row.offset

\* TortillaDataFrame.read of a row of a table read from a URL: the nested
\* table of a TORTILLA item, the subfile string of any other item.
ReadRow(idx) ==
    /\ pc = "loaded"
    /\ call.op \in {"load", "load_list", "lazy_load"}
    /\ table.kind = "ok"
    /\ idx \in 1..Len(table.rows)
    /\ table.rows[idx].fileFormat # <<66, 89, 84, 69, 83>>
    /\ LET row == table.rows[idx]
           parsed == GetInternalPath(row.subfile)
       IN IF row.fileFormat = TORTILLA
          THEN /\ IsValidUrl(parsed.path)
               /\ table' = RemoteLazyFile2Metadata(DescendOffset(row, parsed), parsed.path,
                                                   net.objects)
               /\ call' = [op |-> "read", file |-> parsed.path,
                           expanded |-> call.expanded, offset |-> DescendOffset(row, parsed)]
               /\ net' = [net EXCEPT !.footers =
                              FooterRequests(<<parsed.path>>, DescendOffset(row, parsed), FALSE,
                                             net.objects)]
               /\ UNCHANGED result
          ELSE /\ result' = [kind |-> "returned", value |-> row.subfile]
               /\ call' = [op |-> "read_item", file |-> parsed.path,
                           expanded |-> call.expanded, offset |-> row.offset]
               /\ UNCHANGED <<table, net>>
    /\ pc' = "read"
    /\ UNCHANGED <<fs, tasks, samples, subset, hist>>

LocalInputs == {dir \o name : dir \in Dirs, name \in {DataPath, NestName, SnippetName}}
RemoteInputs == {UrlBase \o name : name \in {DataPath, NestName, SnippetName}}
ListInputs ==
    {<<pre \o WithPartSuffix(DataPath, 0), pre \o WithPartSuffix(DataPath, 1)>> :
        pre \in Dirs \cup {UrlBase}}
    \cup {<<pre \o DataPath>> : pre \in Dirs \cup {UrlBase}}

NextRead ==
    \/ \E p \in DOMAIN fs : DamageLocal(p)
    \/ \E u \in DOMAIN net.objects : DamageRemote(u)
    \/ \E i \in 1..2 : DamageChild(i)
    \/ \E p \in DOMAIN fs : RemovePart(p)
    \/ \E file \in LocalInputs \cup RemoteInputs : LoadFile(file)
    \/ \E list \in ListInputs : LoadList(list)
    \/ \E i \in 1..2 :
         LazyLoad(FooterRowsOf(net.objects[UrlBase \o NestName])[i].offset, UrlBase \o NestName)
    \/ \E idx \in 1..Len(table.rows) : ReadRow(idx)

SpecRead == InitRead /\ [][NextRead]_vars

----------------------------------------------------------------------------
(* read on the tables of nested reads: Tortillas inside Tortillas inside a
   Tortilla *)

DeepName == <<"deep", ".tortilla">>

\* Three levels of nesting around the items of one dataset.
DeepTortilla(n, lens) ==
    LET single == WrittenTortilla(Range(1, n), lens, GTiff, 1)
        first == WrittenTortilla(Range(1, 1), lens, GTiff, 1)
        nest == NestedTortilla(<<first, single>>)
    IN NestedTortilla(<<first, NestedTortilla(<<single, nest>>)>>)

InitNested ==
    /\ \E n \in 1..MaxItems :
        \E lens \in SourceLengths(n) :
            net = [state |-> "closed", requests |-> 0, body |-> <<>>, object |-> <<>>,
                   objects |-> (UrlBase \o DeepName :> DeepTortilla(n, lens)),
                   log |-> <<>>, footers |-> <<>>]
    /\ fs = <<>>
    /\ pc = "idle"
    /\ call = NoCall
    /\ tasks = <<>>
    /\ result = NoResult
    /\ table = NoTable
    /\ samples = <<>>
    /\ subset = <<>>
    /\ hist = NoHist

\* The bases of the nested reads that produced the table at hand, outermost
\* first.
BasesOf(c) ==
    IF c.op = "read" THEN c.parents \o <<c.offset>>
    ELSE IF c.op = "lazy_load" THEN <<c.offset>>
    ELSE <<>>

\* TortillaDataFrame.read of a row of any table of the reader, the table of a
\* nested read included.
ReadNested(idx) ==
    /\ pc \in {"loaded", "read"}
    /\ call.op \in {"load", "lazy_load", "read"}
    /\ table.kind = "ok"
    /\ idx \in 1..Len(table.rows)
    /\ LET row == table.rows[idx]
           parsed == GetInternalPath(row.subfile)
           base == DescendOffset(row, parsed)
       IN IF row.fileFormat = TORTILLA
          THEN /\ IsValidUrl(parsed.path)
               /\ table' = RemoteLazyFile2Metadata(base, parsed.path, net.objects)
               /\ call' = [op |-> "read", file |-> parsed.path, expanded |-> call.expanded,
                           offset |-> base, parents |-> BasesOf(call)]
               /\ net' = [net EXCEPT !.footers =
                              FooterRequests(<<parsed.path>>, base, FALSE, net.objects)]
               /\ UNCHANGED result
          ELSE /\ result' = [kind |-> "returned", value |-> row.subfile]
               /\ call' = [op |-> "read_item", file |-> parsed.path,
                           expanded |-> call.expanded, offset |-> row.offset,
                           parents |-> BasesOf(call)]
               /\ UNCHANGED <<table, net>>
    /\ pc' = "read"
    /\ UNCHANGED <<fs, tasks, samples, subset, hist>>

NextNested ==
    \/ LoadFile(UrlBase \o DeepName)
    \/ \E i \in 1..2 :
         LazyLoad(FooterRowsOf(net.objects[UrlBase \o DeepName])[i].offset, UrlBase \o DeepName)
    \/ \E idx \in 1..Len(table.rows) : ReadNested(idx)

SpecNested == InitNested /\ [][NextNested]_vars

----------------------------------------------------------------------------
(* Properties of the writer *)

GapFree(b) ==
    /\ FooterWellFormed(FooterBlobOf(b))
    /\ LET rows == FooterRowsOf(b)
           n == Len(rows)
       IN /\ n >= 1
          /\ rows[1].offset = 200
          /\ \A i \in 1..(n - 1) : rows[i + 1].offset = rows[i].offset + rows[i].length
          /\ FooterOffsetOf(b) = rows[n].offset + rows[n].length
          /\ FooterOffsetOf(b) = 200 + SumLen(rows)
          /\ FooterLengthOf(b) = Len(EncodeFooter(rows))
          /\ Len(b) = FooterOffsetOf(b) + FooterLengthOf(b)

WrittenIds(paths) == Flatten([k \in 1..Len(paths) |->
                        [i \in 1..Len(FooterRowsOf(fs[paths[k]])) |-> FooterRowsOf(fs[paths[k]])[i].id]])

\* C1: every file create has finished writing is gap-free: the footer rows are in
\* input order, the first offset is 200, every next offset is the previous
\* offset plus the previous length, footer_offset is the end of the last item,
\* footer_length is the encoded footer's length and the size is their sum.
C1_GapFreeLayout ==
    call.op = "create" =>
        /\ \A k \in 1..Len(call.paths) : GapFree(fs[call.paths[k]])
        /\ LET ids == WrittenIds(call.paths)
           IN /\ Len(ids) <= Len(samples)
              /\ \A i \in 1..Len(ids) : ids[i] = samples[i].id

C1_Witness ==
    /\ pc = "done"
    /\ call.op = "create"
    /\ result.kind = "returned"
    /\ Len(call.paths) = 1
    /\ Len(samples) = 2
    /\ \A i \in 1..2 : Len(fs[samples[i].path]) > 0

SampleOfId(id) == CHOOSE i \in 1..Len(samples) : samples[i].id = id

ItemBytesCopied(b) ==
    \A i \in 1..Len(FooterRowsOf(b)) :
        LET r == FooterRowsOf(b)[i]
        IN PySlice(b, r.offset, r.offset + r.length) = fs[samples[SampleOfId(r.id)].path]

\* C2: after create returns, the bytes [offset, offset + length) of every item
\* are the content of its source file, for every chunk_size_iter >= 1.
C2_ItemBytesEqualSource ==
    (pc = "done" /\ call.op = "create" /\ result.kind = "returned" /\ call.chunkIter >= 1) =>
        \A k \in 1..Len(call.paths) : ItemBytesCopied(fs[call.paths[k]])

ExpectedOffset(i) ==
    200 + SumLen([j \in 1..(i - 1) |-> [length |-> Len(fs[samples[j].path])]])

\* C3: the local read of a single file written by create returns one row per
\* sample, in input order, with the sample's id, its source file's size, the
\* offset assigned to it, its extra column, the writer's data_format, mode
\* "local", and no internal:path column.
C3_ReadWriteRoundTrip ==
    (pc = "loaded" /\ call.op = "create" /\ Len(call.groups) = 1) =>
        /\ table.kind = "ok"
        /\ Len(table.rows) = Len(samples)
        /\ \A i \in 1..Len(table.rows) :
            /\ table.rows[i].id = samples[i].id
            /\ table.rows[i].length = Len(fs[samples[i].path])
            /\ table.rows[i].offset = ExpectedOffset(i)
            /\ table.rows[i].extra = samples[i].extra
            /\ table.rows[i].fileFormat = call.fileFormat
            /\ table.rows[i].mode = "local"
            /\ "path" \notin DOMAIN table.rows[i]

C3_Witness ==
    /\ pc = "loaded"
    /\ call.op = "create"
    /\ Len(call.groups) = 1
    /\ Len(table.rows) = 2
    /\ table.rows[2].offset > 200

\* C10: when a worker task raised while copying an item, the operation does
\* not return the output path: the error reaches the caller.
C10_WorkerErrorReachesCaller ==
    (pc \in {"done", "loaded"} /\ hist.workerError) => result.kind = "raised"

----------------------------------------------------------------------------
(* Properties of the local compiler *)

SubsetRowOfId(id) == subset[CHOOSE i \in 1..Len(subset) : subset[i].id = id]

\* C4: compile writes the selected rows in ascending order of their source
\* offset, with new offsets 200, 200 + length[0], ...; the header's footer_offset
\* is the end of the last item and the size is footer_offset + footer_length.
C4_CompileLayout ==
    (pc = "done" /\ call.op = "compile" /\ result.kind = "returned" /\ subset[1].mode = "local") =>
        LET out == fs[OutputPath]
            rows == FooterRowsOf(out)
        IN /\ GapFree(out)
           /\ Len(rows) = Len(subset)
           /\ {rows[i].id : i \in 1..Len(rows)} = {subset[i].id : i \in 1..Len(subset)}
           /\ \A i \in 1..Len(rows) : rows[i].length = SubsetRowOfId(rows[i].id).length
           /\ \A i \in 1..(Len(rows) - 1) :
                SubsetRowOfId(rows[i].id).offset <= SubsetRowOfId(rows[i + 1].id).offset

C4_Witness ==
    /\ pc = "done"
    /\ call.op = "compile"
    /\ Len(table.rows) = 3
    /\ subset = <<table.rows[3], table.rows[1]>>
    /\ table.rows[1].length > 0
    /\ table.rows[2].length > 0
    /\ FooterRowsOf(fs[OutputPath])[1].offset = 200
    /\ FooterRowsOf(fs[OutputPath])[2].offset = 200 + table.rows[1].length

\* C5: in local compile the output bytes of every selected row are the bytes
\* [offset, offset + length) of the source file named in that row's own
\* internal:subfile, also for a table read from several files.
C5_CompiledBytesFromRowFile ==
    (pc = "done" /\ call.op = "compile" /\ result.kind = "returned"
        /\ subset[1].mode = "local" /\ ~hist.workerError) =>
        LET out == fs[OutputPath]
            rows == FooterRowsOf(out)
        IN \A i \in 1..Len(rows) :
            LET r == SubsetRowOfId(rows[i].id)
            IN PySlice(out, rows[i].offset, rows[i].offset + rows[i].length)
               = PySlice(fs[AfterLastComma(r.subfile)], r.offset, r.offset + r.length)

\* The rows of the footer a finished compile wrote: the footer the header
\* locates, or for an online compile the footer at the end of the file.
CompiledFooterRows ==
    LET out == fs[OutputPath]
    IN IF subset[1].mode = "online"
       THEN DecodeFooter(PySlice(out, Len(out) - Len(call.footer), Len(out)))
       ELSE FooterRowsOf(out)

InternalColumns == {"mode", "fileFormat", "subfile"}

----------------------------------------------------------------------------
(* Properties of the online compiler *)

\* What an uninterrupted online compile of the subset writes.
ExpectedData == 200 + SumLen(subset)
ExpectedFooter == EncodeFooter(NewFooterRows(call.metadata))
ExpectedSize == ExpectedData + Len(ExpectedFooter)
ExpectedHeader == HeaderBytes(ExpectedData, Len(ExpectedFooter), subset[1].fileFormat, 1)
ExpectedBody ==
    Flatten([i \in 1..Len(call.metadata) |->
                PySlice(net.object, call.metadata[i].offset,
                        call.metadata[i].offset + call.metadata[i].length)])
Uninterrupted == ExpectedHeader \o ExpectedBody \o ExpectedFooter

\* C6: an online compile that resumes a file left by an invocation interrupted
\* after the header and part of the data, and streams to completion, leaves a
\* file of exactly data_end + footer_length bytes, equal to the file an
\* uninterrupted compile writes.
C6_ResumeCompletes ==
    (pc = "done" /\ hist.last = "complete" /\ hist.resumed) =>
        /\ Len(fs[OutputPath]) = ExpectedSize
        /\ fs[OutputPath] = Uninterrupted

\* C7: over the invocations on one output file the header is written exactly
\* once, at bytes 0-199, and an invocation writes it if and only if the output
\* was absent or shorter than 200 bytes when it started.
C7_HeaderWrittenOnce ==
    (pc \in {"get", "stream", "done"} /\ hist.invocations >= 1 /\ OutputPath \in DOMAIN fs) =>
        /\ hist.headerWrites = 1
        /\ PySlice(fs[OutputPath], 0, 200) = ExpectedHeader
        /\ hist.wroteHeader <=> hist.entrySize < 200

\* C8: when the output exists with exactly data_end + footer_length bytes,
\* compile_online returns at once: no HTTP request, no write, the file unchanged.
C8_NoOpWhenComplete ==
    [][(pc = "compile_online" /\ OutputPath \in DOMAIN fs /\ Len(fs[OutputPath]) = ExpectedSize)
        => (fs' = fs /\ net' = net /\ pc' = "done" /\ result'.kind = "returned")]_vars

C8_Witness ==
    /\ pc = "done"
    /\ hist.last = "noop"
    /\ hist.invocations = 2
    /\ Len(fs[OutputPath]) = ExpectedSize
    /\ net.requests = 1

\* C9: when the GET or the stream fails with a requests exception, compile
\* raises nothing, the file keeps what was written before the failure (its
\* content at entry, the header if written, the chunks streamed so far) and
\* gets no footer; the footer follows the data only when the stream ended.
C9_FailureKeepsPartial ==
    /\ (pc = "done" /\ hist.last \in NetworkErrors) =>
            /\ result = [kind |-> "returned", value |-> OutputPath]
            /\ fs[OutputPath] = hist.entryBytes
                                \o (IF hist.wroteHeader THEN ExpectedHeader ELSE <<>>)
                                \o SubSeq(ExpectedBody, 1, hist.streamed)
    /\ (pc = "done" /\ hist.last = "complete") =>
            /\ hist.streamed = Len(ExpectedBody)
            /\ fs[OutputPath] = hist.entryBytes
                                \o (IF hist.wroteHeader THEN ExpectedHeader ELSE <<>>)
                                \o ExpectedBody \o ExpectedFooter

C9_Witness ==
    /\ pc = "done"
    /\ hist.last = "ChunkedEncodingError"
    /\ result.kind = "returned"
    /\ hist.wroteHeader
    /\ hist.streamed >= 1
    /\ hist.streamed < Len(ExpectedBody)
    /\ Len(fs[OutputPath]) = 200 + hist.streamed

----------------------------------------------------------------------------
(* Properties of the partitioning *)

DataPartitionsOf(b) == FromBytesLE(PySlice(b, 42, 50))

PartName(k) == <<"out", ".", "0", "0", "0", Digit(k), ".part.tortilla">>

\* C11: the groups of group_dataframe_by_size, concatenated in group order, are
\* the input rows in input order; a group of two or more items has a total
\* length of at most chunk_size; an item longer than chunk_size is alone in its
\* group.
C11_GroupsPartitionInput ==
    call.op = "create" =>
        /\ Flatten(call.groups) = ExportMetadata(samples, fs)
        /\ \A g \in 1..Len(call.groups) :
            /\ Len(call.groups[g]) >= 2 => SumLen(call.groups[g]) <= call.chunkSize
            /\ \A i \in 1..Len(call.groups[g]) :
                call.groups[g][i].length > call.chunkSize => Len(call.groups[g]) = 1

C11_Witness ==
    /\ call.op = "create"
    /\ Len(samples) = 2
    /\ Len(call.groups) = 2
    /\ Len(call.groups[1]) = 1
    /\ call.groups[1][1].length <= call.chunkSize
    /\ call.groups[2][1].length > call.chunkSize

C27_GroupsNonEmpty ==
    (call.op = "create") =>
        \A g \in 1..Len(call.groups) : call.groups[g] # <<>>

----------------------------------------------------------------------------
(* Properties of the reader *)

\* The parts a snippet stands for: as many as part 0000 beside the snippet
\* records, beside the snippet.
SnippetPrefix == SubSeq(call.file, 1, Len(call.file) - Len(SnippetName))
SnippetPart(d) == SnippetPrefix \o <<"data", ".", "0", "0", "0", Digit(d), ".part.tortilla">>
SnippetParts(store) ==
    [d \in 1..DataPartitionsOf(store[SnippetPart(0)]) |-> SnippetPart(d - 1)]

\* C13: the expansion of a snippet reads N from bytes 42-49 of part 0000 (for
\* a URL with one GET of Range bytes=42-49) and gives the N parts beside the
\* snippet in ascending order; a local snippet fails if and only if one of
\* these parts is absent.
C13_SnippetExpansion ==
    (pc = "loaded" /\ call.op = "load" /\ IsSnippet(call.file)) =>
        IF IsValidUrl(call.file)
        THEN SnippetPart(0) \in DOMAIN net.objects =>
             /\ call.expanded.kind = "ok"
             /\ call.expanded.value = SnippetParts(net.objects)
             /\ net.log = <<[url |-> SnippetPart(0), first |-> 42, last |-> 49]>>
        ELSE IF SnippetPart(0) \notin DOMAIN fs
        THEN call.expanded.kind = "raised"
        ELSE /\ call.expanded.kind = "raised"
                    <=> \E d \in 1..Len(SnippetParts(fs)) : SnippetParts(fs)[d] \notin DOMAIN fs
             /\ call.expanded.kind = "ok" => call.expanded.value = SnippetParts(fs)

\* C14: a nested read at base B reads the child's header at B and its footer
\* at B + the child's footer_offset, and returns the child's rows with
\* tortilla:offset = B + the stored offset, so every offset is at least B + 200.
C14_NestedOffsets ==
    (/\ pc \in {"loaded", "read"}
     /\ call.op \in {"lazy_load", "read"}
     /\ PySlice(ChildAt(net.objects[call.file], call.offset), 0, 2) = MB) =>
        LET B == call.offset
            stored == ChildRows(net.objects[call.file], B)
        IN /\ table.kind = "ok"
           /\ Len(table.rows) = Len(stored)
           /\ \A i \in 1..Len(stored) :
                /\ table.rows[i].offset = B + stored[i].offset
                /\ table.rows[i].offset >= B + 200
                /\ B = 200 => table.rows[i].offset >= 400
                /\ table.rows[i].id = stored[i].id
                /\ table.rows[i].length = stored[i].length

C14_Witness ==
    /\ pc = "read"
    /\ call.op = "read"
    /\ call.offset > 200
    /\ table.kind = "ok"
    /\ Len(table.rows) = 2
    /\ table.rows[2].offset > call.offset + 200

\* The files a call of the reader opens, in the order it opens them, and the
\* store they are in.
FilesRead ==
    IF call.expanded.kind # "ok" THEN <<>>
    ELSE IF call.expanded.list THEN call.expanded.value ELSE <<call.expanded.value>>

StoreRead == IF FilesRead # <<>> /\ IsValidUrl(FilesRead[1]) THEN net.objects ELSE fs

\* The reader has read a header whose bytes 0-1 are not "#y": the header of the
\* first file of the call that is not sound, or the header of the child.
ReadBadHeader ==
    /\ pc \in {"loaded", "read"}
    /\ IF call.op \in {"load", "load_list"}
       THEN \E j \in 1..Len(FilesRead) :
               /\ \A k \in 1..j : FilesRead[k] \in DOMAIN StoreRead
               /\ \A k \in 1..(j - 1) : PySlice(StoreRead[FilesRead[k]], 0, 2) = <<35, 121>>
               /\ PySlice(StoreRead[FilesRead[j]], 0, 2) # <<35, 121>>
       ELSE /\ call.op \in {"lazy_load", "read"}
            /\ PySlice(ChildAt(net.objects[call.file], call.offset), 0, 2) # <<35, 121>>

WrittenFormat(file) ==
    IF SubSeq(file, Len(file) - 1, Len(file)) = NestName THEN TORTILLA ELSE GTiff

\* C16: a header whose data_format field is padded with 0x20 or with 0x00 is
\* read back with internal:file_format equal to the format without padding.
C16_PaddingStripped ==
    (pc = "loaded" /\ call.op = "load" /\ table.kind = "ok") =>
        \A i \in 1..Len(table.rows) :
            table.rows[i].fileFormat = WrittenFormat(FilesRead[1])

\* C20: the online compiler writes no byte of the body of an answer whose
\* status is not 206, and does not complete its output from such an answer.
C20_Non206IsError ==
    /\ (net.state = "open" /\ net.status # 206) => hist.streamed = 0
    /\ (pc = "done" /\ hist.last = "complete") => net.status = 206

\* The file a row of a table was read from: a batch read returns the rows of
\* its files one file after the other.
RowsBefore(j) ==
    SumLen([k \in 1..j |-> [length |-> Len(FooterRowsOf(StoreRead[FilesRead[k]]))]])

FileOfRow(i) ==
    IF call.op \in {"lazy_load", "read"} THEN call.file
    ELSE FilesRead[CHOOSE j \in 1..Len(FilesRead) : RowsBefore(j - 1) < i /\ i <= RowsBefore(j)]

\* C18: every row a reader returns carries "/vsisubfile/" + its own offset +
\* "_" + its own length + "," + the file it was read from ("/vsicurl/" + URL
\* for a remote read), and get_internal_path gives back that offset, that
\* length and the file without "/vsicurl/".
C18_SubfileRoundTrip ==
    (/\ pc \in {"loaded", "read"}
     /\ call.op \in {"load", "load_list", "lazy_load", "read"}
     /\ table.kind = "ok") =>
        \A i \in 1..Len(table.rows) :
            LET row == table.rows[i]
                file == FileOfRow(i)
                source == IF IsValidUrl(file) THEN <<"/vsicurl/">> \o file ELSE file
            IN /\ row.subfile = <<"/vsisubfile/">> \o Str(row.offset) \o <<"_">>
                                    \o Str(row.length) \o <<",">> \o source
               /\ GetInternalPath(row.subfile)
                      = [offset |-> row.offset, length |-> row.length, path |-> file]

C18_Witness ==
    /\ pc = "loaded"
    /\ call.op = "load_list"
    /\ table.kind = "ok"
    /\ Len(table.rows) >= 2
    /\ IsValidUrl(FileOfRow(1))
    /\ FileOfRow(Len(table.rows)) # FileOfRow(1)

\* C22: a collection with two samples of the same id is rejected, and every
\* file create has written from a Samples object has pairwise distinct
\* tortilla:id values in its footer.
C22_DistinctIds ==
    (pc = "done" /\ call.op = "create" /\ result.kind = "returned") =>
        \A k \in 1..Len(call.paths) :
            LET rows == FooterRowsOf(fs[call.paths[k]])
            IN \A i, j \in 1..Len(rows) : i # j => rows[i].id # rows[j].id

\* C24: the bytes of the coalesced ranges, in the order of the request, are
\* the payloads of the selected items in the order of their new offsets: as
\* many as data_end - 200, and the k-th byte streamed is the byte of output
\* position 200 + k, so the stream is appended after the header as it comes.
C24_StreamIsPayloadOrder ==
    pc = "stream" =>
        LET payloads == Flatten([i \in 1..Len(call.metadata) |->
                                   PySlice(net.object, call.metadata[i].offset,
                                           call.metadata[i].offset + call.metadata[i].length)])
            rows == NewFooterRows(call.metadata)
        IN /\ Len(payloads) = call.bytesCounter - 200
           /\ \A i \in 1..(Len(rows) - 1) : rows[i].offset <= rows[i + 1].offset
           /\ net.body = SubSeq(payloads, hist.streamed + 1, Len(payloads))
           /\ Len(fs[OutputPath]) = 200 + hist.streamed
           /\ \A k \in 1..hist.streamed : fs[OutputPath][200 + k] = payloads[k]

C24_Witness ==
    /\ pc = "stream"
    /\ Len(call.headers) = 2
    /\ Len(call.metadata) = 2
    /\ call.metadata[1].length > 0
    /\ call.metadata[2].length > 0
    /\ hist.streamed > call.metadata[1].length

\* C25: every footer request of a remote read, of a single URL, of a list and
\* of a nested item, asks for the bytes footer_offset to footer_offset +
\* footer_length - 1 of the Tortilla it reads: exactly footer_length bytes.
C25_FooterRangeExact ==
    \A k \in 1..Len(net.footers) :
        LET request == net.footers[k]
            child == ChildAt(net.objects[request.url], request.base)
        IN /\ request.first = request.base + FooterOffsetOf(child)
           /\ request.last = request.first + FooterLengthOf(child) - 1
           /\ request.last - request.first + 1 = FooterLengthOf(child)

----------------------------------------------------------------------------
(* Properties of the worker tasks *)

\* The offset table of the file being written, and the byte positions of the
\* file (counted from 1) that item i was assigned.
OffsetTable ==
    IF call.op = "create" THEN AssignOffsets(call.groups[call.part])
    ELSE NewFooterRows(call.metadata)

AssignedTo(i) == {b \in 1..Len(fs[call.cur]) :
                    /\ b > OffsetTable[i].offset
                    /\ b <= OffsetTable[i].offset + OffsetTable[i].length}

\* The positions where a step changed the file.
Touched == {b \in 1..Len(fs[call.cur]) : fs'[call.cur][b] # fs[call.cur][b]}

C26_CopyTerminates == (pc = "copy" /\ call.op = "compile") ~> (pc = "done")

----------------------------------------------------------------------------
(* Properties of compile on an existing output *)

\* The file a compile of the selection writes on an empty output path.
SourceBytesOf == IF subset[1].mode = "online" THEN net.object ELSE fs[DataPath]

FreshCompile ==
    LET metadata == call.metadata
        footer == EncodeFooter(NewFooterRows(metadata))
        data == Flatten([i \in 1..Len(metadata) |->
                            PySlice(SourceBytesOf, metadata[i].offset,
                                    metadata[i].offset + metadata[i].length)])
    IN HeaderBytes(HeaderSize + Len(data), Len(footer), GTiff, 1) \o data \o footer

\* C21: with overwrite=True compile removes the file at the output path before
\* it writes, in local and in online mode, and the finished file is the file
\* of a compile on an empty path; an online compile finds and continues an
\* existing output only with overwrite=False.
C21_OverwriteRemoves ==
    (call.op = "compile" /\ call.overwrite) =>
        /\ pc \in {"compile_local", "compile_online"} => OutputPath \notin DOMAIN fs
        /\ pc \in {"get", "stream"} => hist.entrySize = -1
        /\ (pc = "done" /\ subset[1].mode = "online") => hist.entrySize = -1
        /\ (pc = "done" /\ subset[1].mode = "online" /\ hist.last = "complete") =>
                fs[OutputPath] = FreshCompile
        /\ (pc = "done" /\ subset[1].mode = "local") => fs[OutputPath] = FreshCompile

C21_Witness ==
    /\ pc = "done"
    /\ call.op = "compile"
    /\ call.overwrite
    /\ subset[1].mode = "online"
    /\ hist.last = "complete"
    /\ hist.invocations = 2
    /\ hist.entrySize = -1
    /\ Len(subset) = 2
    /\ fs[OutputPath] = FreshCompile

----------------------------------------------------------------------------
(* Properties of the range header *)

\* The rows after which the next row does not start where the row ends.
GapsAfter(df) == {i \in 1..(Len(df) - 1) : df[i + 1].offset # df[i].offset + df[i].length}

\* The k-th smallest element of a set of numbers.
Kth(S, k) == CHOOSE x \in S : Cardinality({y \in S : y < x}) = k - 1

ExampleRows == RowsOf(0, <<100, 100, 50>>, <<0, 100, 0>>)

\* C17: for rows in ascending offset order the header has one range per
\* maximal run of rows that each start where the previous one ends, from the
\* run's first offset to its last end minus one, so gaps + 1 ranges; the rows
\* (0,100), (100,100), (300,50) give "bytes=0-199,bytes=300-349".
C17_RangeCoalescing ==
    (pc = "done" /\ call.op = "build_simplified_range_header") =>
        LET df == subset
            breaks == GapsAfter(df)
            ranges == call.headers
        IN /\ Len(ranges) = Cardinality(breaks) + 1
           /\ \A k \in 1..Len(ranges) :
                LET from == Kth({0} \cup breaks, k) + 1
                    to == Kth(breaks \cup {Len(df)}, k)
                IN /\ ranges[k].first = df[from].offset
                   /\ ranges[k].last = df[to].offset + df[to].length - 1
           /\ df = ExampleRows =>
                result.value = <<"bytes=", "0", "-", "1", "9", "9", ",",
                                 "bytes=", "3", "0", "0", "-", "3", "4", "9">>

C17_Witness ==
    /\ pc = "done"
    /\ call.op = "build_simplified_range_header"
    /\ subset = ExampleRows
    /\ Len(call.headers) = 2

\* C28: whenever compile returns the output path without raising, in local or
\* in online mode, the file at that path is a complete Tortilla: one 200-byte
\* header first, a size of footer_offset + footer_length, and the footer bytes
\* at footer_offset.
C28_ReturnedFileComplete ==
    (pc = "done" /\ call.op = "compile"
        /\ result = [kind |-> "returned", value |-> OutputPath]) =>
        /\ OutputPath \in DOMAIN fs
        /\ LET b == fs[OutputPath]
               fo == FooterOffsetOf(b)
               fl == FooterLengthOf(b)
           IN /\ Len(b) >= HeaderSize
              /\ PySlice(b, 0, 2) = MB
              /\ fo >= HeaderSize
              /\ Len(b) = fo + fl
              /\ PySlice(b, fo, fo + fl) = EncodeFooter(NewFooterRows(call.metadata))

\* C29: compile on a table whose internal:mode is neither "local" nor "online"
\* fails with the unknown-mode error and leaves the filesystem as it was: a
\* file already at the output path is neither deleted nor modified, and no
\* output file is created.
C29_UnknownModeLeavesFiles ==
    [][(pc = "selected" /\ pc' = "done" /\ subset[1].mode \notin {"local", "online"}) =>
            /\ result' = [kind |-> "raised", value |-> <<"ValueError">>]
            /\ fs' = fs]_vars

----------------------------------------------------------------------------
(* Properties of nested reads *)

Outermost == net.objects[UrlBase \o DeepName]

\* The bytes of an item of the Tortilla b, cut out of b at the offset b's own
\* footer stores.
ItemOf(b, r) == SubSeq(b, r.offset + 1, r.offset + r.length)

\* The Tortilla reached from the Tortilla b, which starts at byte `at` of the
\* outermost file, through the enclosing items at the given absolute bases:
\* each base has to be `at` plus the relative offset of an item of b.
RECURSIVE Enclosed(_, _, _)
Enclosed(b, at, bases) ==
    IF bases = <<>> THEN [found |-> TRUE, file |-> b, sum |-> at]
    ELSE LET stored == FooterRowsOf(b)
             hits == {i \in 1..Len(stored) : at + stored[i].offset = Head(bases)}
         IN IF hits = {} THEN [found |-> FALSE, file |-> <<>>, sum |-> 0]
            ELSE LET i == CHOOSE i \in hits : TRUE
                 IN Enclosed(ItemOf(b, stored[i]), at + stored[i].offset, Tail(bases))

\* C30: nested reads compose: the table read from a TORTILLA row of a table
\* that a nested read produced holds, at every depth, the rows of the enclosed
\* Tortilla with tortilla:offset, and the offset inside internal:subfile, equal
\* to the sum of the relative offsets of the enclosing items plus the item's
\* own relative offset: the item's position in the outermost file.
C30_NestedReadsCompose ==
    (pc = "read" /\ call.op = "read") =>
        LET e == Enclosed(Outermost, 0, BasesOf(call))
            stored == FooterRowsOf(e.file)
        IN /\ e.found
           /\ e.sum = call.offset
           /\ table.kind = "ok"
           /\ Len(table.rows) = Len(stored)
           /\ \A i \in 1..Len(stored) :
                /\ table.rows[i].offset = e.sum + stored[i].offset
                /\ table.rows[i].length = stored[i].length
                /\ GetInternalPath(table.rows[i].subfile).offset = e.sum + stored[i].offset
                /\ GetInternalPath(table.rows[i].subfile).path = UrlBase \o DeepName
                /\ PySlice(Outermost, table.rows[i].offset,
                           table.rows[i].offset + table.rows[i].length)
                        = ItemOf(e.file, stored[i])

C30_Witness ==
    /\ pc = "read"
    /\ call.op = "read"
    /\ Len(call.parents) = 2
    /\ call.parents[1] > HeaderSize
    /\ call.offset > call.parents[2] + HeaderSize
    /\ table.kind = "ok"
    /\ Len(table.rows) = 2
    /\ table.rows[2].fileFormat = GTiff
    /\ table.rows[2].length >= 1
    /\ table.rows[2].offset > call.offset + HeaderSize

====
